---- MODULE Spec2Model ----
(***************************************************************************)
(* A model of dotfiles-manager.py: the package lifecycle commands          *)
(* (new, delete) with the uninstall and adopt workflows they call, over an *)
(* abstract repository: the on-disk configuration JSON and its .backup     *)
(* sibling, the ordinary and the privileged package directories, the       *)
(* files of the install target, the privileged destinations and the        *)
(* package backups.                                                        *)
(*                                                                         *)
(* Package names are one-character strings; a line typed at a prompt is a  *)
(* sequence of one-character strings, so that str.strip() and str.lower()  *)
(* are computed and not assumed.  A package p owns the relative paths      *)
(* p/<file> for <file> in Files; the install target holds, for each such   *)
(* path, nothing, a regular file, a symlink that resolves to the file of   *)
(* the ordinary package directory ("link").                                *)
(*                                                                         *)
(* The log file (lines 567-576) is not modelled.                           *)
(***************************************************************************)
EXTENDS Integers, Sequences, FiniteSets, TLC

\* ------------------------------------------------------------- bounds
MaxList == 2
MaxTyped == 2
MaxCmds == 2
MaxAnswer == 3
MaxName == 4
MaxPath == 4

\* ------------------------------------------------------------ universe
Names == {"p", "q", "r"}
ArgNames == {"p", "q"}
Files == {"f", ".gitkeep"}
Maps == {"m1", "m2"}
NoDir == {"<nodir>"}
NoEntry == <<"<noentry>">>
NoFile == [all_packages |-> <<"<nofile>">>, sudo_packages |-> <<>>,
           package_targets |-> {}, special_files |-> [n \in Names |-> NoEntry]]

\* special_files[pkg].files entries: src (a file of the privileged package
\* directory), dst (an absolute destination, named after the mapping), sudo.
MapSrc(m) == IF m = "m1" THEN "f" ELSE ".gitkeep"
MapSudo(m) == m = "m1"

\* ------------------------------------------------------ pure helpers
Contains(seq, x) == \E i \in 1..Len(seq) : seq[i] = x

Append1(seq, x) == IF Contains(seq, x) THEN seq ELSE Append(seq, x)

RemoveFirst(seq, x) ==
    IF ~Contains(seq, x) THEN seq
    ELSE LET i == CHOOSE k \in 1..Len(seq) :
                    seq[k] = x /\ \A j \in 1..(k - 1) : seq[j] # x
         IN SubSeq(seq, 1, i - 1) \o SubSeq(seq, i + 1, Len(seq))

Whitespace == {" ", "\t", "\n", "\r"}

RECURSIVE LStrip(_)
LStrip(s) == IF s # <<>> /\ Head(s) \in Whitespace THEN LStrip(Tail(s)) ELSE s

RECURSIVE RStrip(_)
RStrip(s) == IF s # <<>> /\ s[Len(s)] \in Whitespace
             THEN RStrip(SubSeq(s, 1, Len(s) - 1)) ELSE s

Strip(s) == RStrip(LStrip(s))

LowerChar(c) == CASE c = "Y" -> "y" [] c = "E" -> "e" [] c = "S" -> "s"
                  [] c = "N" -> "n" [] OTHER -> c

Lower(s) == [i \in 1..Len(s) |-> LowerChar(s[i])]

SeqsUpTo(S, n) == UNION {[1..k -> S] : k \in 0..n}

\* ---------------------------------------------------- operator input
TypedChars == {" ", "p", "q"}
TypedTexts == SeqsUpTo(TypedChars, MaxTyped)
AnswerTexts == {<<>>, <<"y">>, <<"Y">>, <<"n">>, <<"y", "e", "s">>,
                <<"Y", "E", "S">>, <<" ", "y", " ">>, <<"y", "e">>}

\* What input() delivers: a line, or EOFError / KeyboardInterrupt.
PromptEvents(texts) ==
    {[kind |-> "text", text |-> t] : t \in texts}
        \cup {[kind |-> "eof", text |-> <<>>], [kind |-> "interrupt", text |-> <<>>]}

\* ---------------------------------------------------------------- state
VARIABLES
    config_json,    \* .dotfiles-config.json on disk
    config_backup,  \* .dotfiles-config.json.backup on disk (NoFile: absent)
    ord_dir,        \* dotfiles_dir/<name>: its files, or NoDir
    sudo_dir,       \* dotfiles_dir/sudo_packages/<name>: its files, or NoDir
    tgt,            \* target_dir: state of the path <name>/<file>
    alt,            \* the package_targets override directory, likewise
    sys,            \* the privileged destinations that exist
    pkg_backups,    \* .backups/delete-<ts>/<name>/: [name, content]
    file_backups,   \* .backups/: one set of copied target files per <ts>/ directory
    os_imported,    \* whether the module global os is bound
    tools,          \* which external tools answer --version: [stow, git]
    prompt,         \* one [y/N] prompt taken alone: [site, ev, asked, yes]
    probe,          \* one call of a pure helper taken alone: [arg, done, out]
    pc,             \* position of the running invocation
    budget,         \* invocations the operator still makes
    cfg,            \* the Config object of the running invocation
    args,           \* its parsed command line
    idx,            \* delete: index of the package being processed
    md,             \* delete: metadata of that package
    backup_path,    \* delete: whether backup_path is not None
    hist,           \* what happened for the package being processed
    results,        \* outcome of each package processed by this invocation
    calls,          \* external processes started by this invocation
    prev,           \* the invocation before this one: what it was and did
    error           \* the exception that ended the invocation, or "none"

vars == <<config_json, config_backup, ord_dir, sudo_dir, tgt, alt, sys,
          pkg_backups, file_backups, os_imported, tools, prompt, probe, pc, budget, cfg, args, idx, md,
          backup_path, hist, results, calls, prev, error>>

disk == <<config_json, config_backup, ord_dir, sudo_dir, tgt, alt, sys,
          pkg_backups, file_backups>>

TStates == {"absent", "file", "link"}

NoArgs == [command |-> "none", packages |-> <<>>, force |-> FALSE,
           dry_run |-> FALSE, keep_files |-> FALSE, no_backup |-> FALSE,
           package_name |-> "p", from_path |-> "none", from_exists |-> FALSE,
           is_sudo |-> FALSE, custom_target |-> FALSE, all |-> FALSE,
           no_git |-> FALSE]

NoPrompt == [site |-> "none", ev |-> [kind |-> "eof", text |-> <<>>],
             asked |-> FALSE, yes |-> FALSE]

NoProbe == [arg |-> <<>>, done |-> FALSE, out |-> FALSE]

AllTools == [stow |-> TRUE, git |-> TRUE]

NoPrev == [command |-> "none", package_name |-> "p", created |-> FALSE,
           clean |-> TRUE]

NoMd == [exists_in_config |-> FALSE, exists_as_directory |-> FALSE,
         is_sudo |-> FALSE, has_custom_target |-> FALSE,
         has_special_files |-> FALSE, directory_path |-> FALSE,
         sudo_directory_path |-> FALSE]

\* What the running command has done for the package it is processing, and
\* the disk as it was when it began with that package.
NoHist == [name |-> "none", typed_exact |-> FALSE, uninstall_called |-> FALSE,
           inputs |-> 0,
           stale |-> {}, override |-> FALSE, backup_copy |-> NoDir,
           backup_failed |-> FALSE, cont_without |-> FALSE,
           removed |-> "none", removed_content |-> NoDir,
           rm_failed |-> FALSE, cfg_called |-> FALSE,
           confirmed |-> FALSE, created |-> "none", cfg_ok |-> FALSE,
           cfg_failed |-> FALSE, rollback_failed |-> FALSE,
           adopt_tried |-> FALSE, prompted |-> FALSE, said_no |-> FALSE,
           log |-> <<>>, asked |-> <<>>, git |-> <<>>, sim_failed |-> {},
           pre |-> <<>>]

\* ------------------------------------------------- validation helpers
IsValidPackageAnyDirectory(package) ==
    ord_dir[package] # NoDir \/ sudo_dir[package] # NoDir

\* _is_valid_package: the directory sudo_packages/<package> for a name of
\* sudo_packages, <package> for any other, has to exist.
IsValidPackage(package) ==
    IF Contains(cfg.sudo_packages, package)
    THEN sudo_dir[package] # NoDir
    ELSE ord_dir[package] # NoDir

GetPackageMetadataAnySection(package_name) ==
    [exists_in_config |-> \/ Contains(cfg.all_packages, package_name)
                          \/ Contains(cfg.sudo_packages, package_name)
                          \/ package_name \in cfg.package_targets
                          \/ cfg.special_files[package_name] # NoEntry,
     exists_as_directory |-> ord_dir[package_name] # NoDir
                              \/ sudo_dir[package_name] # NoDir,
     is_sudo |-> Contains(cfg.sudo_packages, package_name)
                  \/ sudo_dir[package_name] # NoDir,
     has_custom_target |-> package_name \in cfg.package_targets,
     has_special_files |-> cfg.special_files[package_name] # NoEntry,
     directory_path |-> ord_dir[package_name] # NoDir,
     sudo_directory_path |-> sudo_dir[package_name] # NoDir]

GetPackageMetadata(package_name) ==
    [exists_in_config |-> Contains(cfg.all_packages, package_name),
     exists_as_directory |-> ord_dir[package_name] # NoDir
                              \/ sudo_dir[package_name] # NoDir,
     is_sudo |-> Contains(cfg.sudo_packages, package_name)
                  \/ sudo_dir[package_name] # NoDir,
     has_custom_target |-> package_name \in cfg.package_targets,
     has_special_files |-> cfg.special_files[package_name] # NoEntry,
     directory_path |-> ord_dir[package_name] # NoDir,
     sudo_directory_path |-> sudo_dir[package_name] # NoDir]

\* _confirm_action: "yes", "no", or the exception input() raised.
\* What was typed at a prompt reads as a refusal: a line that is neither y
\* nor yes once stripped and lowered (kept for the record of the run).
TypedNo(ev) ==
    ev.kind = "text" /\ Lower(Strip(ev.text)) \notin {<<"y">>, <<"y", "e", "s">>}

ConfirmActionEmptyIsYes(ev) ==
    IF ev.kind = "text"
    THEN IF Lower(Strip(ev.text)) \in {<<>>, <<"y">>, <<"y", "e", "s">>}
         THEN "yes" ELSE "no"
    ELSE ev.kind

ConfirmAction(ev) ==
    IF ev.kind = "text"
    THEN IF Lower(Strip(ev.text)) \in {<<"y">>, <<"y", "e", "s">>}
         THEN "yes" ELSE "no"
    ELSE ev.kind

\* delete's own [y/N] prompts: input().strip().lower() != "y" cancels, and
\* KeyboardInterrupt and EOFError are caught and cancel.
DeleteYes(ev) == ev.kind = "text" /\ Lower(Strip(ev.text)) = <<"y">>

ConfirmationMatchesNonEmpty(ev, package_name) ==
    ev.kind = "text" /\ Strip(ev.text) # <<>>

\* delete's name confirmation: input().strip() != package_name cancels.
ConfirmationMatches(ev, package_name) ==
    ev.kind = "text" /\ Strip(ev.text) = <<package_name>>

\* ------------------------------------------------- the linker (external)
StowCall(mode, simulate, package) ==
    [tool |-> "stow", mode |-> mode, simulate |-> simulate, package |-> package,
     target |-> "target_dir"]

SudoCall(mode, m, package) ==
    [tool |-> "sudo", mode |-> mode, simulate |-> FALSE, package |-> package,
     target |-> m]

\* stow -D <package>: the symlinks of target_dir that point into the package
\* are removed.
StowDelete(t, package) ==
    [t EXCEPT ![package] =
        [f \in Files |-> IF t[package][f] = "link" THEN "absent" ELSE t[package][f]]]

\* ------------------------------------------ privileged-file handler
\* _handle_sudo_package(package, "uninstall", None) from the mapping `maps`
\* on, with the destinations `s` present: every way it can end.
UninstallSpecialFileUnasked(m, package, s) ==
    {[sys |-> s \ {m}, end |-> "returned",
      calls |-> IF MapSudo(m) /\ m \in s THEN {SudoCall("rm", m, package)} ELSE {},
      asked |-> <<>>]}

\* _uninstall_special_file for the destination of m: every way it can end,
\* as [sys, end, calls, asked]; asked keeps what was typed at its prompt.
UninstallSpecialFile(m, package, s) ==
    IF m \notin s
    THEN {[sys |-> s, end |-> "returned", calls |-> {}, asked |-> <<>>]}
    ELSE UNION {
           LET answer == ConfirmAction(ev)
               a == <<[m |-> m, no |-> TypedNo(ev)]>>
               c == IF MapSudo(m) THEN {SudoCall("rm", m, package)} ELSE {}
           IN IF answer = "yes"
              THEN {[sys |-> s \ {m}, end |-> "returned", calls |-> c, asked |-> a],
                    [sys |-> s, end |-> "returned", calls |-> c, asked |-> a]}
              ELSE IF answer = "no"
              THEN {[sys |-> s, end |-> "returned", calls |-> {}, asked |-> a]}
              ELSE {[sys |-> s, end |-> answer, calls |-> {}, asked |-> a]}
           : ev \in PromptEvents(AnswerTexts)}

RECURSIVE SudoUninstallOutcomes(_, _, _)
SudoUninstallOutcomes(maps, package, s) ==
    IF maps = <<>>
    THEN {[sys |-> s, end |-> "returned", calls |-> {}, asked |-> <<>>]}
    ELSE LET m == Head(maps)
         IN IF MapSrc(m) \notin sudo_dir[package]
            THEN SudoUninstallOutcomes(Tail(maps), package, s)
            ELSE UNION {
                   IF o.end # "returned" THEN {o}
                   ELSE {[r EXCEPT !.calls = o.calls \cup @, !.asked = o.asked \o @] :
                            r \in SudoUninstallOutcomes(Tail(maps), package, o.sys)}
                   : o \in UninstallSpecialFile(m, package, s)}

HandleSudoUninstall(package) ==
    IF cfg.special_files[package] = NoEntry
    THEN {[sys |-> sys, end |-> "returned", calls |-> {}, asked |-> <<>>]}
    ELSE SudoUninstallOutcomes(cfg.special_files[package], package, sys)

\* ------------------------------------------------------ uninstall
\* uninstall([package], dry_run=False): every way it can end, as
\* [tgt, sys, end, calls, inputs]; end is "returned" or the exception that
\* escapes, inputs the number of times it waited at input().
UninstallOutcomes(package) ==
    IF ~IsValidPackage(package)
    THEN {[tgt |-> tgt, sys |-> sys, end |-> "returned", calls |-> {}, inputs |-> 0]}
    ELSE LET is_sudo == Contains(cfg.sudo_packages, package)
             pre == IF is_sudo THEN {} ELSE {StowCall("-D", TRUE, package)}
         IN UNION {
              LET answer == ConfirmAction(ev) IN
              IF answer = "yes"
              THEN IF is_sudo
                   THEN {[tgt |-> tgt, sys |-> o.sys, end |-> o.end,
                          calls |-> pre \cup o.calls, inputs |-> 1 + Len(o.asked)]
                            : o \in HandleSudoUninstall(package)}
                   ELSE {[tgt |-> t, sys |-> sys, end |-> "returned",
                          calls |-> pre \cup {StowCall("-D", FALSE, package)}, inputs |-> 1]
                            : t \in {StowDelete(tgt, package), tgt}}
              ELSE IF answer = "no"
              THEN {[tgt |-> tgt, sys |-> sys, end |-> "returned", calls |-> pre,
                     inputs |-> 1]}
              ELSE {[tgt |-> tgt, sys |-> sys, end |-> answer, calls |-> pre, inputs |-> 1]}
              : ev \in PromptEvents(AnswerTexts)}

\* ---------------------------------------- delete's helper functions
VerifySymlinksRemovedNothing(package_name) ==
    [raised |-> ~os_imported /\ (sudo_dir[package_name] # NoDir \/ ord_dir[package_name] # NoDir),
     remaining |-> {}]

\* _verify_symlinks_removed: [raised, remaining].  os.walk needs the module
\* global os, which the module does not import: NameError.
VerifySymlinksRemoved(package_name) ==
    LET target == IF package_name \in cfg.package_targets THEN alt ELSE tgt
        check_dir == IF sudo_dir[package_name] # NoDir THEN "sudo"
                     ELSE IF ord_dir[package_name] # NoDir THEN "ord"
                     ELSE "none"
        content == IF check_dir = "sudo" THEN sudo_dir[package_name]
                   ELSE ord_dir[package_name]
    IN IF check_dir = "none" THEN [raised |-> FALSE, remaining |-> {}]
       ELSE IF ~os_imported THEN [raised |-> TRUE, remaining |-> {}]
       ELSE [raised |-> FALSE,
             remaining |-> {f \in content \ {".gitkeep"} :
                              target[package_name][f] = "link" /\ check_dir = "ord"}]

\* _create_package_backup: [success, backup_path, copy]; copy is the content
\* written under .backups/delete-<ts>/<name>/, or NoDir.
CreatePackageBackup(package_name, is_sudo) ==
    LET source_dir == IF is_sudo THEN sudo_dir[package_name] ELSE ord_dir[package_name]
    IN IF source_dir = NoDir
       THEN {[success |-> TRUE, backup_path |-> FALSE, copy |-> NoDir]}
       ELSE {[success |-> TRUE, backup_path |-> TRUE, copy |-> source_dir],
             [success |-> FALSE, backup_path |-> FALSE, copy |-> NoDir]}

RemovedFromConfigKeepsTarget(config_data, package_name) ==
    [all_packages |-> RemoveFirst(config_data.all_packages, package_name),
     sudo_packages |-> RemoveFirst(config_data.sudo_packages, package_name),
     package_targets |-> config_data.package_targets,
     special_files |-> [config_data.special_files EXCEPT ![package_name] = NoEntry]]

\* The sections of the JSON after the removals of _remove_from_config.
RemovedFromConfig(config_data, package_name) ==
    [all_packages |-> RemoveFirst(config_data.all_packages, package_name),
     sudo_packages |-> RemoveFirst(config_data.sudo_packages, package_name),
     package_targets |-> config_data.package_targets \ {package_name},
     special_files |-> [config_data.special_files EXCEPT ![package_name] = NoEntry]]

\* Where a configuration update can fail: the copy to .backup, the read of
\* the JSON, the open for writing.
IoOutcomes == {"ok", "copy_fails", "read_fails", "write_fails"}

WriteConfigNoBackup(data, io) ==
    [success |-> io = "ok",
     config_json |-> IF io = "ok" THEN data ELSE config_json,
     config_backup |-> config_backup]

\* _remove_from_config / _update_config_file around the new content `data`:
\* [success, config_json, config_backup].
WriteConfig(data, io) ==
    [success |-> io = "ok",
     config_json |-> IF io = "ok" THEN data ELSE config_json,
     config_backup |-> IF io = "copy_fails" THEN config_backup ELSE config_json]

\* ---------------------------------------------------------- delete
CurName == args.packages[idx]

\* `continue`: this package ends with `result`, the loop goes on.
Continue(result) ==
    /\ results' = Append(results, result)
    /\ idx' = idx + 1
    /\ pc' = "delete_begin"

\* Lines 1433-1538: metadata, not-found, preview, dry-run, name confirmation.
DeleteBegin ==
    /\ pc = "delete_begin"
    /\ idx <= Len(args.packages)
    /\ LET metadata == GetPackageMetadata(CurName)
           h == [NoHist EXCEPT !.name = CurName, !.pre = disk]
       IN /\ md' = metadata
          /\ backup_path' = FALSE
          /\ IF ~metadata.exists_in_config /\ ~metadata.exists_as_directory
             THEN Continue("not_found") /\ hist' = h
             ELSE IF args.dry_run
             THEN Continue("dry_run") /\ hist' = h
             ELSE IF args.force
             THEN /\ pc' = "delete_uninstall"
                  /\ hist' = h
                  /\ UNCHANGED <<results, idx>>
             ELSE \E ev \in PromptEvents(TypedTexts) :
                    /\ hist' = [h EXCEPT !.prompted = TRUE, !.typed_exact =
                                   ev.kind = "text" /\ Strip(ev.text) = <<CurName>>]
                    /\ IF ConfirmationMatches(ev, CurName)
                       THEN pc' = "delete_uninstall" /\ UNCHANGED <<results, idx>>
                       ELSE Continue("cancelled")
    /\ UNCHANGED <<disk, os_imported, tools, prompt, probe, error, budget, prev, cfg, args, calls>>

\* Lines 1540-1548: the uninstall workflow; `except Exception` logs and goes
\* on, KeyboardInterrupt is no Exception and ends the process.
DeleteUninstall ==
    /\ pc = "delete_uninstall"
    /\ IF md.exists_as_directory
       THEN \E o \in UninstallOutcomes(CurName) :
              /\ tgt' = o.tgt
              /\ sys' = o.sys
              /\ calls' = calls \cup o.calls
              /\ hist' = [hist EXCEPT !.uninstall_called = TRUE, !.inputs = o.inputs]
              /\ pc' = IF o.end = "interrupt" THEN "crashed" ELSE "delete_verify"
              /\ error' = IF o.end = "interrupt" THEN "KeyboardInterrupt" ELSE error
       ELSE /\ pc' = "delete_backup"
            /\ UNCHANGED <<tgt, sys, calls, hist, error>>
    /\ UNCHANGED <<config_json, config_backup, ord_dir, sudo_dir, alt, pkg_backups,
                   file_backups, os_imported, tools, prompt, probe, budget, prev, cfg, args, idx, md, backup_path, results>>

\* The files of the package that still have, at their path under the
\* package's install target, a symlink resolving to the repository file.
StaleSymlinks(package_name) ==
    LET target == IF package_name \in cfg.package_targets THEN alt ELSE tgt
    IN {f \in ord_dir[package_name] \ NoDir : target[package_name][f] = "link"}

\* Lines 1550-1577: stale-symlink verification and the override prompt.
DeleteVerify ==
    /\ pc = "delete_verify"
    /\ LET v == VerifySymlinksRemoved(CurName)
           h == [hist EXCEPT !.stale = StaleSymlinks(CurName)]
       IN IF v.raised
          THEN /\ pc' = "crashed"
               /\ error' = "NameError"
               /\ hist' = h
               /\ UNCHANGED <<results, idx>>
          ELSE IF v.remaining = {}
          THEN pc' = "delete_backup" /\ hist' = h /\ UNCHANGED <<results, idx, error>>
          ELSE \E ev \in PromptEvents(AnswerTexts) :
                 IF DeleteYes(ev)
                 THEN /\ pc' = "delete_backup"
                      /\ hist' = [h EXCEPT !.override = TRUE]
                      /\ UNCHANGED <<results, idx, error>>
                 ELSE Continue("cancelled") /\ hist' = h /\ UNCHANGED error
    /\ UNCHANGED <<disk, os_imported, tools, prompt, probe, budget, prev, cfg, args, md, backup_path, calls>>

\* Lines 1579-1602: the package backup and the continue-without-backup prompt.
DeleteBackup ==
    /\ pc = "delete_backup"
    /\ IF md.exists_as_directory /\ ~args.no_backup /\ ~args.keep_files
       THEN \E b \in CreatePackageBackup(CurName, md.is_sudo) :
              /\ backup_path' = b.backup_path
              /\ pkg_backups' = IF b.copy = NoDir THEN pkg_backups
                                ELSE pkg_backups \cup {[name |-> CurName, content |-> b.copy]}
              /\ IF b.success
                 THEN /\ pc' = "delete_rmdir"
                      /\ hist' = [hist EXCEPT !.backup_copy = b.copy]
                      /\ UNCHANGED <<results, idx>>
                 ELSE \E ev \in PromptEvents(AnswerTexts) :
                        IF DeleteYes(ev)
                        THEN /\ pc' = "delete_rmdir"
                             /\ hist' = [hist EXCEPT !.backup_failed = TRUE,
                                                     !.cont_without = TRUE]
                             /\ UNCHANGED <<results, idx>>
                        ELSE /\ Continue("cancelled")
                             /\ hist' = [hist EXCEPT !.backup_failed = TRUE]
       ELSE /\ pc' = "delete_rmdir"
            /\ UNCHANGED <<backup_path, pkg_backups, hist, results, idx>>
    /\ UNCHANGED <<config_json, config_backup, ord_dir, sudo_dir, tgt, alt, sys,
                   file_backups, os_imported, tools, prompt, probe, error, budget, prev, cfg, args, md, calls>>

RmtreeFailedGoesOn == pc' = "delete_config" /\ UNCHANGED <<results, idx>>

\* Lines 1616-1620: rmtree raised; "Don't continue if we can't remove the
\* directory".
RmtreeFailed == Continue("rm_failed")

\* Lines 1604-1620: shutil.rmtree of the package directory.
DeleteRemoveDir ==
    /\ pc = "delete_rmdir"
    /\ IF md.exists_as_directory /\ ~args.keep_files
       THEN \E removed \in BOOLEAN :
              IF removed
              THEN /\ IF md.sudo_directory_path
                      THEN /\ sudo_dir' = [sudo_dir EXCEPT ![CurName] = NoDir]
                           /\ hist' = [hist EXCEPT !.removed = "sudo",
                                          !.removed_content = sudo_dir[CurName]]
                           /\ UNCHANGED ord_dir
                      ELSE /\ ord_dir' = [ord_dir EXCEPT ![CurName] = NoDir]
                           /\ hist' = [hist EXCEPT !.removed = "ord",
                                          !.removed_content = ord_dir[CurName]]
                           /\ UNCHANGED sudo_dir
                   /\ pc' = "delete_config"
                   /\ UNCHANGED <<results, idx>>
              ELSE /\ RmtreeFailed
                   /\ hist' = [hist EXCEPT !.rm_failed = TRUE]
                   /\ UNCHANGED <<ord_dir, sudo_dir>>
       ELSE /\ pc' = "delete_config"
            /\ UNCHANGED <<ord_dir, sudo_dir, hist, results, idx>>
    /\ UNCHANGED <<config_json, config_backup, tgt, alt, sys, pkg_backups,
                   file_backups, os_imported, tools, prompt, probe, error, budget, prev, cfg, args, md, backup_path, calls>>

\* Lines 1622-1676: the configuration removal and the success report.
DeleteConfig ==
    /\ pc = "delete_config"
    /\ IF md.exists_in_config
       THEN \E io \in IoOutcomes :
              LET w == WriteConfig(RemovedFromConfig(config_json, CurName), io)
              IN /\ config_json' = w.config_json
                 /\ config_backup' = w.config_backup
                 /\ hist' = [hist EXCEPT !.cfg_called = TRUE]
                 /\ Continue(IF w.success THEN "success" ELSE "cfg_failed")
       ELSE /\ Continue("success")
            /\ UNCHANGED <<config_json, config_backup, hist>>
    /\ UNCHANGED <<ord_dir, sudo_dir, tgt, alt, sys, pkg_backups, file_backups, os_imported, tools, prompt, probe, error,
                   budget, prev, cfg, args, md, backup_path, calls>>

\* The for loop is exhausted: delete returns and main() ends.
DeleteEnd ==
    /\ pc = "delete_begin"
    /\ idx > Len(args.packages)
    /\ pc' = "done"
    /\ UNCHANGED <<disk, os_imported, tools, prompt, probe, error, budget, prev, cfg, args, idx, md, backup_path,
                   hist, results, calls>>

\* ------------------------------------------------- repositories (Init)
\* The package p, in every shape the claims distinguish.
PShapes ==
    {s \in [ord : {NoDir, {".gitkeep"}, {"f", ".gitkeep"}},
            sudo : {NoDir, {"f"}},
            in_all : BOOLEAN, in_sudo : BOOLEAN, has_target : BOOLEAN,
            special : {NoEntry, <<"m1", "m2">>},
            sysd : {{}, {"m1"}},
            tf : {"absent", "link"}, tg : {"absent", "link"}, inalt : BOOLEAN] :
        /\ ~(s.ord = {".gitkeep"} /\ s.sudo # NoDir)
        /\ s.has_target => s.in_all /\ ~s.in_sudo
        /\ s.special # NoEntry => s.in_sudo /\ s.sudo # NoDir
        /\ s.sysd # {} => s.special # NoEntry
        /\ s.tf = "link" => "f" \in s.ord
        /\ s.tg = "link" => ".gitkeep" \in s.ord /\ (s.tf = "link" \/ "f" \notin s.ord)
        /\ s.inalt => s.has_target /\ s.tf = "link"}

\* The rest of the repository: nothing, or a privileged package q that is
\* only configured and an ordinary installed package r.
OtherShapes == {"alone", "others"}

RepoConfig(s, o) ==
    [all_packages |-> IF o = "alone"
                      THEN (IF s.in_all THEN <<"p">> ELSE <<>>)
                      ELSE (IF s.in_all THEN <<"q", "p", "r">> ELSE <<"q", "r">>),
     sudo_packages |-> IF o = "alone"
                       THEN (IF s.in_sudo THEN <<"p">> ELSE <<>>)
                       ELSE (IF s.in_sudo THEN <<"q", "p">> ELSE <<"q">>),
     package_targets |-> (IF s.has_target THEN {"p"} ELSE {})
                           \cup (IF o = "alone" THEN {} ELSE {"r"}),
     special_files |-> [n \in Names |->
                          IF n = "p" THEN s.special
                          ELSE IF n = "q" /\ o = "others" THEN <<"m2">>
                          ELSE NoEntry]]

NoTarget == [n \in Names |-> [f \in Files |-> "absent"]]

\* What lies at the target paths of p's files: under target_dir, where
\* install puts the symlinks, or under the package_targets directory of p,
\* where a hand-run linker puts them.
PLinks(s, inalt) ==
    [f \in Files |-> IF s.inalt # inalt THEN "absent"
                     ELSE IF f = "f" THEN s.tf ELSE s.tg]

InitRepo(s, o) ==
    /\ config_json = RepoConfig(s, o)
    /\ config_backup = NoFile
    /\ ord_dir = [n \in Names |->
                    IF n = "p" THEN s.ord
                    ELSE IF n = "r" /\ o = "others" THEN {"f", ".gitkeep"}
                    ELSE NoDir]
    /\ sudo_dir = [n \in Names |-> IF n = "p" THEN s.sudo ELSE NoDir]
    /\ tgt = [n \in Names |->
                 IF n = "p" THEN PLinks(s, FALSE)
                 ELSE [f \in Files |->
                         IF n = "r" /\ f = "f" /\ o = "others" THEN "link" ELSE "absent"]]
    /\ alt = [NoTarget EXCEPT !["p"] = PLinks(s, TRUE)]
    /\ sys = s.sysd
    /\ pkg_backups = {}
    /\ file_backups = {}

InitProcess ==
    /\ pc = "start"
    /\ prompt = NoPrompt
    /\ probe = NoProbe
    /\ cfg = NoFile
    /\ args = NoArgs
    /\ idx = 1
    /\ md = NoMd
    /\ backup_path = FALSE
    /\ hist = NoHist
    /\ results = <<>>
    /\ calls = {}
    /\ prev = NoPrev
    /\ error = "none"

\* ------------------------------------------------------------- main
\* create_config: the Config object is built from the JSON on disk.
LoadConfigFile == config_json

Idle == pc \in {"start", "done", "crashed", "exited"}

DeleteArgs ==
    {a \in [command : {"delete"},
            packages : SeqsUpTo(ArgNames, MaxList) \ {<<>>},
            force : BOOLEAN, dry_run : BOOLEAN, keep_files : BOOLEAN,
            no_backup : BOOLEAN,
            package_name : {"p"}, from_path : {"none"}, from_exists : {FALSE},
            is_sudo : {FALSE}, custom_target : {FALSE}, all : {FALSE},
            no_git : {FALSE}] :
        /\ a.dry_run => ~a.force /\ ~a.keep_files /\ ~a.no_backup
        /\ ~(a.keep_files /\ a.no_backup)}

\* The invocation has returned, and what it reported for every package it
\* was given is success.
ReportedSuccess ==
    /\ pc = "done"
    /\ results # <<>>
    /\ \A i \in 1..Len(results) : results[i] \in {"success", "created", "adopted"}

\* main(): parse the arguments, build the configuration, dispatch.
Main(a) ==
    /\ Idle
    /\ budget > 0
    /\ budget' = budget - 1
    /\ args' = a
    /\ cfg' = LoadConfigFile
    /\ idx' = 1
    /\ md' = NoMd
    /\ backup_path' = FALSE
    /\ hist' = NoHist
    /\ results' = <<>>
    /\ calls' = {}
    /\ prev' = [command |-> args.command, package_name |-> args.package_name,
                created |-> hist.cfg_ok,
                clean |-> prev.clean /\ (pc = "start" \/ ReportedSuccess)]
    /\ error' = "none"
    /\ UNCHANGED <<disk, os_imported, tools, prompt, probe>>

\* Lines 1926-1932: check_dependencies; without the linker the process
\* exits with status 1 before the command is dispatched.
Dispatch(first) == pc' = IF tools.stow THEN first ELSE "exited"

MainDelete ==
    Idle /\ budget > 0 /\ \E a \in DeleteArgs : Main(a) /\ Dispatch("delete_begin")

DeleteSteps ==
    \/ DeleteBegin
    \/ DeleteUninstall
    \/ DeleteVerify
    \/ DeleteBackup
    \/ DeleteRemoveDir
    \/ DeleteConfig
    \/ DeleteEnd

\* One delete invocation on the module as shipped (os is not imported).
InitDelete ==
    /\ \E s \in PShapes, o \in OtherShapes : InitRepo(s, o)
    /\ InitProcess
    /\ budget = 1
    /\ os_imported = FALSE
    /\ tools = AllTools

NextDelete == MainDelete \/ DeleteSteps

SpecDelete == InitDelete /\ [][NextDelete]_vars

\* The same invocation with the name os bound, as `import os` would bind it:
\* the code of delete behind line 1551.
InitDeleteOs ==
    /\ \E s \in PShapes, o \in OtherShapes : InitRepo(s, o)
    /\ InitProcess
    /\ budget = 1
    /\ os_imported = TRUE
    /\ tools = AllTools

SpecDeleteOs == InitDeleteOs /\ [][NextDelete]_vars

\* ================================================================ claims
InDelete == args.command = "delete" /\ hist.name # "none"

\* The last package delete finished with: its result.
LastResult == IF results = <<>> THEN "none" ELSE results[Len(results)]

\* C1: in delete without --force and outside simulate mode, unless the line
\* typed by the operator, stripped, is the package name, nothing is mutated
\* for that package (no uninstall, no backup, no directory removal, no
\* configuration write: the disk is as it was when the package was begun),
\* the package is over, and the loop goes on to the next one; a delete that
\* returns has given every package of its list a result.
C1_TypedNameGate ==
    /\ (InDelete /\ ~args.force /\ ~args.dry_run /\ ~hist.typed_exact) =>
          /\ disk = hist.pre
          /\ ~hist.uninstall_called
          /\ pc \in {"delete_begin", "done"}
          /\ idx = Len(results) + 1
          /\ LastResult \in {"cancelled", "not_found"}
    /\ (args.command = "delete" /\ pc = "done") => Len(results) = Len(args.packages)

\* C1 witness: a first package cancelled at the name prompt, the second
\* one deleted.
C1_Witness ==
    /\ args.command = "delete" /\ ~args.force /\ pc = "done"
    /\ Len(results) = 2 /\ results[1] = "cancelled" /\ results[2] = "success"

C3_NoErrorEscapes == pc = "crashed" => error = "KeyboardInterrupt"

CheckedOrdinary == ~hist.pre[4][hist.name] # NoDir

Without(seq, x) == SelectSeq(seq, LAMBDA y : y # x)

\* C6: when delete reports success for a package that is in all_packages,
\* the configuration JSON holds the name in none of all_packages,
\* sudo_packages, package_targets and special_files; what the four sections
\* held for the other packages, and the order of all_packages, are as before.
C6_RemovedFromAllSections ==
    (InDelete /\ pc \in {"delete_begin", "done"} /\ LastResult = "success"
       /\ md.exists_in_config) =>
        /\ config_json.all_packages = Without(hist.pre[1].all_packages, hist.name)
        /\ config_json.sudo_packages = Without(hist.pre[1].sudo_packages, hist.name)
        /\ config_json.package_targets = hist.pre[1].package_targets \ {hist.name}
        /\ \A n \in Names :
             config_json.special_files[n] =
                IF n = hist.name THEN NoEntry ELSE hist.pre[1].special_files[n]

\* C6 witness: a package with entries in all four sections, beside other
\* packages' entries, was deleted with success.
C6_Witness ==
    /\ InDelete /\ pc = "done" /\ LastResult = "success" /\ md.exists_in_config
    /\ Len(hist.pre[1].all_packages) = 3
    /\ Contains(hist.pre[1].sudo_packages, hist.name)
    /\ hist.pre[1].special_files[hist.name] # NoEntry


\* ================================================================== new
\* The names given to `new`, and the characters they are made of.
NewNames == {"p", "", ".git", ".x", "a b"}

NameChars(name) ==
    CASE name = "" -> <<>>
      [] name = ".git" -> <<".", "g", "i", "t">>
      [] name = ".x" -> <<".", "x">>
      [] name = "a b" -> <<"a", " ", "b">>
      [] OTHER -> <<name>>

InvalidChars == {"/", "\\", " ", "\t", "\n", ":", "*", "?", "\"", "<", ">", "|"}

ReservedNames ==
    {<<".">>, <<".", ".">>, <<".", "g", "i", "t">>, <<".", "l", "o", "g", "s">>,
     <<".", "b", "a", "c", "k", "u", "p", "s">>,
     <<"s", "u", "d", "o", "_", "p", "a", "c", "k", "a", "g", "e", "s">>}

ValidNameNoDotRule(cs) ==
    /\ cs # <<>>
    /\ Strip(cs) # <<>>
    /\ \A i \in 1..Len(cs) : cs[i] \notin InvalidChars
    /\ cs \notin ReservedNames

\* _validate_package_name on the characters of the name: is_valid.
ValidName(cs) ==
    /\ cs # <<>>
    /\ Strip(cs) # <<>>
    /\ \A i \in 1..Len(cs) : cs[i] \notin InvalidChars
    /\ cs \notin ReservedNames
    /\ cs[1] # "."

\* _validate_package_name: is_valid.
ValidatePackageName(package_name) == ValidName(NameChars(package_name))

CheckPackageExistsDirOnly(package_name, is_sudo) ==
    IF is_sudo THEN sudo_dir[package_name] # NoDir ELSE ord_dir[package_name] # NoDir

\* _check_package_exists: the directory at the location is_sudo selects, or
\* the name in the all_packages of the loaded configuration.
CheckPackageExists(package_name, is_sudo) ==
    \/ IF is_sudo THEN sudo_dir[package_name] # NoDir ELSE ord_dir[package_name] # NoDir
    \/ Contains(cfg.all_packages, package_name)

\* The --from paths: none, ~/<dir>, ~/.config/<name>, a path outside home.
FromPaths == {"none", "home", "xdg", "outside"}

\* A path is the sequence of its parts, the first being "/" for an absolute
\* path and "~" for one written from the home directory; <<>> is no path.
Home == <<"/", "home", "u">>

\* Path.expanduser(): a leading ~ becomes the home directory.
ExpandUser(path) ==
    IF path # <<>> /\ Head(path) = "~" THEN Home \o Tail(path) ELSE path

\* path.relative_to(home) succeeds when the parts of home begin the parts
\* of path, as written: no ".." is resolved and a relative path is not
\* anchored at the working directory.
IsRelativeTo(path, base) ==
    Len(path) >= Len(base) /\ SubSeq(path, 1, Len(base)) = base

\* _determine_structure_from_path on such a path (lines 147-178).
StructureOfPath(path) ==
    IF path = <<>> THEN "xdg"
    ELSE LET expanded == ExpandUser(path) IN
         IF ~IsRelativeTo(expanded, Home) THEN "sudo"
         ELSE LET parts == SubSeq(expanded, Len(Home) + 1, Len(expanded))
              IN IF Len(parts) > 0 /\ parts[1] = ".config" THEN "xdg" ELSE "simple"

\* The path each of the --from paths of FromPaths stands for.
PathOf(from_path) ==
    CASE from_path = "none" -> <<>>
      [] from_path = "outside" -> <<"/", "etc", "d">>
      [] from_path = "xdg" -> <<"~", ".config", "d">>
      [] OTHER -> <<"~", "d">>

\* _determine_structure_from_path: the structure type.
DetermineStructureFromPath(from_path) == StructureOfPath(PathOf(from_path))

\* Lines 1274-1279: the structure type new works with.
StructureType(a) ==
    IF a.is_sudo THEN "sudo" ELSE DetermineStructureFromPath(a.from_path)

\* _create_package_structure: mkdir(parents=True, exist_ok=False) and the
\* .gitkeep placeholder; OSError (the directory is there, or `io_ok` is
\* false) is caught.  [success, ord_dir, sudo_dir].
CreatePackageStructure(package_name, structure_type, io_ok) ==
    LET base == IF structure_type = "sudo" THEN sudo_dir ELSE ord_dir
    IN IF base[package_name] # NoDir \/ ~io_ok
       THEN [success |-> FALSE, ord_dir |-> ord_dir, sudo_dir |-> sudo_dir]
       ELSE IF structure_type = "sudo"
       THEN [success |-> TRUE, ord_dir |-> ord_dir,
             sudo_dir |-> [sudo_dir EXCEPT ![package_name] = {".gitkeep"}]]
       ELSE [success |-> TRUE, sudo_dir |-> sudo_dir,
             ord_dir |-> [ord_dir EXCEPT ![package_name] = {".gitkeep"}]]

\* The sections of the JSON after the additions of _update_config_file.
UpdatedConfig(config_data, package_name, is_sudo, custom_target) ==
    [all_packages |-> Append1(config_data.all_packages, package_name),
     sudo_packages |-> IF is_sudo THEN Append1(config_data.sudo_packages, package_name)
                       ELSE config_data.sudo_packages,
     package_targets |-> IF custom_target
                         THEN config_data.package_targets \cup {package_name}
                         ELSE config_data.package_targets,
     special_files |-> config_data.special_files]

RollbackKeepsTree(package_name, structure_type, rm_ok) ==
    [ord_dir |-> ord_dir, sudo_dir |-> sudo_dir, failed |-> FALSE]

\* Lines 1340-1356: the tree under base_dir is removed; OSError from rmtree
\* is caught and reported.  [ord_dir, sudo_dir, failed].
Rollback(package_name, structure_type, rm_ok) ==
    LET base == IF structure_type = "sudo" THEN sudo_dir ELSE ord_dir
    IN IF base[package_name] = NoDir
       THEN [ord_dir |-> ord_dir, sudo_dir |-> sudo_dir, failed |-> FALSE]
       ELSE IF ~rm_ok
       THEN [ord_dir |-> ord_dir, sudo_dir |-> sudo_dir, failed |-> TRUE]
       ELSE IF structure_type = "sudo"
       THEN [ord_dir |-> ord_dir, failed |-> FALSE,
             sudo_dir |-> [sudo_dir EXCEPT ![package_name] = NoDir]]
       ELSE [sudo_dir |-> sudo_dir, failed |-> FALSE,
             ord_dir |-> [ord_dir EXCEPT ![package_name] = NoDir]]


\* ---------------------------------------------------------------- adopt
\* _get_package_files: the files under the directory the loaded
\* sudo_packages selects (.gitkeep included).
GetPackageFiles(package) ==
    IF Contains(cfg.sudo_packages, package)
    THEN sudo_dir[package] \ NoDir
    ELSE ord_dir[package] \ NoDir

\* _check_conflicts: the package files whose path under target_dir exists
\* and is no symlink.
\* Path.exists() follows a symlink, Path.is_symlink() does not: by what lies
\* at a path (nothing, a regular file, a directory, a symlink to something
\* there, a symlink to nothing); "link" is a symlink to the package file
\* and "elsewhere" one to something else that is there.
Exists(k) == k \in {"file", "dir", "link", "elsewhere"}

IsSymlink(k) == k \in {"link", "elsewhere", "dangling"}

IsConflictAnyExisting(k) == Exists(k)

\* The test of line 628.
IsConflict(k) == Exists(k) /\ ~IsSymlink(k)

\* The loop of _check_conflicts over the package files, target giving what
\* lies at the path of each under target_dir.
ConflictsAt(files, target) == {f \in files : IsConflict(target[f])}

CheckConflicts(package) == ConflictsAt(GetPackageFiles(package), tgt[package])

\* stow --adopt <package>: a regular file at the target path of a package
\* file is moved over the package file; every package file gets its symlink.
StowAdopt(t, package) ==
    [t EXCEPT ![package] =
        [f \in Files |-> IF f \in ord_dir[package] THEN "link" ELSE t[package][f]]]

\* What the linker leaves behind: it exits non-zero, changing nothing, when
\* dotfiles_dir/<package> is missing, and can do so anyway.
StowAdoptResults(package) ==
    IF ord_dir[package] = NoDir THEN {tgt} ELSE {StowAdopt(tgt, package), tgt}

\* adopt([package], git_commit=False): every way it can end, as
\* [tgt, end, calls]; end is "returned" or the exception that escapes.
AdoptOutcomes(package) ==
    LET returned == [tgt |-> tgt, end |-> "returned", calls |-> {}]
    IN IF ~IsValidPackage(package) THEN {returned}
       ELSE IF CheckConflicts(package) = {} THEN {returned}
       ELSE UNION {
              LET answer == ConfirmAction(ev) IN
              IF answer = "yes"
              THEN {[tgt |-> t, end |-> "returned",
                     calls |-> {StowCall("--adopt", FALSE, package)}]
                       : t \in StowAdoptResults(package)}
              ELSE IF answer = "no" THEN {returned}
              ELSE {[tgt |-> tgt, end |-> answer, calls |-> {}]}
              : ev \in PromptEvents(AnswerTexts)}

\* ------------------------------------------------------------ new: steps
\* `return` from new with `result`.
Finish(result) == results' = <<result>> /\ pc' = "done"

ExceptionName(end) == IF end = "eof" THEN "EOFError" ELSE "KeyboardInterrupt"

\* Lines 1259-1322: validation, existence check, preview, dry-run and the
\* confirmation, whose input() is in no try.
NewBegin ==
    /\ pc = "new_begin"
    /\ LET name == args.package_name
           h == [NoHist EXCEPT !.name = name, !.pre = disk]
       IN IF ~ValidatePackageName(name)
          THEN Finish("invalid") /\ hist' = h /\ UNCHANGED error
          ELSE IF CheckPackageExists(name, args.is_sudo)
          THEN Finish("exists") /\ hist' = h /\ UNCHANGED error
          ELSE IF args.dry_run
          THEN Finish("dry_run") /\ hist' = h /\ UNCHANGED error
          ELSE \E ev \in PromptEvents(AnswerTexts) :
                 LET answer == ConfirmAction(ev) IN
                 IF answer = "yes"
                 THEN /\ pc' = "new_create"
                      /\ hist' = [h EXCEPT !.confirmed = TRUE, !.prompted = TRUE,
                                           !.said_no = TypedNo(ev)]
                      /\ UNCHANGED <<results, error>>
                 ELSE IF answer = "no"
                 THEN /\ Finish("cancelled")
                      /\ hist' = [h EXCEPT !.prompted = TRUE, !.said_no = TypedNo(ev)]
                      /\ UNCHANGED error
                 ELSE /\ pc' = "crashed"
                      /\ error' = ExceptionName(answer)
                      /\ hist' = [h EXCEPT !.prompted = TRUE]
                      /\ UNCHANGED results
    /\ UNCHANGED <<disk, os_imported, tools, prompt, probe, budget, prev, cfg, args, idx, md, backup_path,
                   calls>>

\* Lines 1324-1335: the directory skeleton.
NewCreate ==
    /\ pc = "new_create"
    /\ \E io_ok \in BOOLEAN :
         LET st == StructureType(args)
             c == CreatePackageStructure(args.package_name, st, io_ok)
         IN /\ ord_dir' = c.ord_dir
            /\ sudo_dir' = c.sudo_dir
            /\ IF c.success
               THEN /\ pc' = "new_config"
                    /\ hist' = [hist EXCEPT !.created = IF st = "sudo" THEN "sudo" ELSE "ord"]
                    /\ UNCHANGED results
               ELSE Finish("create_failed") /\ UNCHANGED hist
    /\ UNCHANGED <<config_json, config_backup, tgt, alt, sys, pkg_backups, file_backups, os_imported, tools, prompt, probe,
                   budget, prev, cfg, args, idx, md, backup_path, calls, error>>

\* Lines 1337-1358: the configuration update and, when it fails, the rollback.
NewConfig ==
    /\ pc = "new_config"
    /\ \E io \in IoOutcomes, rm_ok \in BOOLEAN :
         LET st == StructureType(args)
             w == WriteConfig(UpdatedConfig(config_json, args.package_name,
                                            args.is_sudo \/ st = "sudo",
                                            args.custom_target), io)
             r == Rollback(args.package_name, st, rm_ok)
         IN /\ config_json' = w.config_json
            /\ config_backup' = w.config_backup
            /\ IF w.success
               THEN /\ pc' = "new_adopt"
                    /\ hist' = [hist EXCEPT !.cfg_ok = TRUE]
                    /\ UNCHANGED <<ord_dir, sudo_dir, results>>
               ELSE /\ ord_dir' = r.ord_dir
                    /\ sudo_dir' = r.sudo_dir
                    /\ hist' = [hist EXCEPT !.cfg_failed = TRUE,
                                            !.rollback_failed = r.failed]
                    /\ Finish(IF r.failed THEN "rollback_failed" ELSE "rolled_back")
    /\ UNCHANGED <<tgt, alt, sys, pkg_backups, file_backups, os_imported, tools, prompt, probe, budget, prev, cfg, args,
                   idx, md, backup_path, calls, error>>

\* Lines 1360-1411: the automatic adopt, inside `except Exception`, and the
\* closing report.
NewAdopt ==
    /\ pc = "new_adopt"
    /\ IF args.from_path # "none" /\ args.from_exists
       THEN \E o \in AdoptOutcomes(args.package_name) :
              /\ tgt' = o.tgt
              /\ calls' = calls \cup o.calls
              /\ hist' = [hist EXCEPT !.adopt_tried = TRUE]
              /\ IF o.end = "interrupt"
                 THEN pc' = "crashed" /\ error' = "KeyboardInterrupt" /\ UNCHANGED results
                 ELSE /\ Finish(IF o.end = "returned" THEN "adopted" ELSE "created")
                      /\ UNCHANGED error
       ELSE Finish("created") /\ UNCHANGED <<tgt, calls, hist, error>>
    /\ UNCHANGED <<config_json, config_backup, ord_dir, sudo_dir, alt, sys, pkg_backups,
                   file_backups, os_imported, tools, prompt, probe, budget, prev, cfg, args, idx, md, backup_path>>

NewSteps ==
    \/ NewBegin
    \/ NewCreate
    \/ NewConfig
    \/ NewAdopt


\* ------------------------------------------------------ new: invocation
\* Repositories for new: p with or without a directory at either location,
\* listed or not, and regular files at the paths its files would link from.
NewShapes ==
    {s \in [ord : {NoDir, {"f", ".gitkeep"}},
            sudo : {NoDir, {"f"}},
            in_all : BOOLEAN, in_sudo : BOOLEAN, has_target : {FALSE},
            special : {NoEntry}, sysd : {{}},
            tf : {"absent", "file"}, tg : {"absent", "file"}, inalt : {FALSE}] :
        s.tg = "file" => s.tf = "file"}

NewArgs ==
    {a \in [command : {"new"}, packages : {<<>>}, force : {FALSE},
            dry_run : BOOLEAN, keep_files : {FALSE}, no_backup : {FALSE},
            package_name : NewNames, from_path : FromPaths,
            from_exists : BOOLEAN, is_sudo : BOOLEAN, custom_target : BOOLEAN,
            all : {FALSE}, no_git : {FALSE}] :
        /\ a.from_path = "none" => ~a.from_exists
        /\ a.package_name \notin Names =>
             a.from_path = "none" /\ ~a.is_sudo /\ ~a.custom_target /\ ~a.dry_run
        /\ a.dry_run => a.from_path = "none" /\ ~a.custom_target
        /\ a.custom_target => ~a.is_sudo /\ a.from_path \in {"none", "home"}}

\* A --from path under home is the directory the package's files link from:
\* it exists when something lies there.
FromPathOnDisk(a) ==
    (a.package_name \in Names /\ a.from_path \in {"home", "xdg"}
       /\ \E f \in Files : tgt[a.package_name][f] # "absent") => a.from_exists

MainNew ==
    Idle /\ budget > 0 /\ \E a \in NewArgs :
        FromPathOnDisk(a) /\ Main(a) /\ Dispatch("new_begin")

\* One new invocation.
InitNew ==
    /\ \E s \in NewShapes, o \in OtherShapes : InitRepo(s, o)
    /\ InitProcess
    /\ budget = 1
    /\ os_imported = FALSE
    /\ tools = AllTools

NextNew == MainNew \/ NewSteps

SpecNew == InitNew /\ [][NextNew]_vars

\* ------------------------------------------------------------ lifecycle
\* No name has both directories, and a directory lies under sudo_packages/
\* exactly when its name is in the sudo_packages of the JSON on disk.
RepoInvariant ==
    \A n \in Names :
        /\ ~(ord_dir[n] # NoDir /\ sudo_dir[n] # NoDir)
        /\ sudo_dir[n] # NoDir => Contains(config_json.sudo_packages, n)
        /\ ord_dir[n] # NoDir => ~Contains(config_json.sudo_packages, n)

\* Up to MaxCmds invocations of new and of delete with one package, each
\* loading the JSON anew, on the module as shipped, from a repository in
\* which RepoInvariant holds.
Init ==
    /\ \E s \in NewShapes, o \in OtherShapes : InitRepo(s, o)
    /\ RepoInvariant
    /\ InitProcess
    /\ budget = MaxCmds
    /\ os_imported = FALSE
    /\ tools = AllTools

\* A confirmed delete of one package.
MainDeleteOne ==
    Idle /\ budget > 0 /\ \E a \in {b \in DeleteArgs : Len(b.packages) = 1 /\ ~b.dry_run} :
        Main(a) /\ Dispatch("delete_begin")

Next == MainNew \/ MainDeleteOne \/ NewSteps \/ DeleteSteps

Spec == Init /\ [][Next]_vars


\* ======================================================= claims on new
InNew == args.command = "new" /\ hist.name # "none"

\* The directory new created in this run is still there.
CreatedTreeExists ==
    \/ hist.created = "ord" /\ ord_dir[hist.name] # NoDir
    \/ hist.created = "sudo" /\ sudo_dir[hist.name] # NoDir

AdoptInvoked == StowCall("--adopt", FALSE, hist.name) \in calls

C8_NewFromAdopts ==
    (InNew /\ hist.confirmed /\ pc = "done" /\ results \in {<<"created">>, <<"adopted">>}
       /\ args.from_path \in {"home", "xdg"} /\ args.from_exists /\ ~args.is_sudo
       /\ \E f \in Files : hist.pre[5][hist.name][f] = "file") =>
        /\ Contains(config_json.all_packages, hist.name)
        /\ AdoptInvoked
        /\ \A f \in Files : tgt[hist.name][f] # "file"

\* C9: a new for the name that the invocation before it created ends at the
\* existence check: it changes nothing on disk (no directory, no file of the
\* package, no configuration JSON and no .backup) and starts no process.
C9_SecondNewFails ==
    (InNew /\ prev.command = "new" /\ prev.created /\ prev.package_name = hist.name) =>
        /\ pc = "done"
        /\ results = <<"exists">>
        /\ disk = hist.pre
        /\ calls = {}

\* C9 witness: the second new asks for the privileged location, where no
\* directory is, after the first created the ordinary package.
C9_Witness ==
    /\ InNew /\ prev.command = "new" /\ prev.created /\ prev.package_name = hist.name
    /\ args.is_sudo /\ args.from_path = "outside"
    /\ ord_dir[hist.name] # NoDir /\ sudo_dir[hist.name] = NoDir
    /\ results = <<"exists">>

\* C10: after any sequence of new and delete invocations that each reported
\* success, from a repository in which RepoInvariant holds, RepoInvariant
\* holds.
C10_RepoInvariantPreserved ==
    (prev.clean /\ ReportedSuccess) => RepoInvariant


\* ============================================ claims on the whole tool
\* C11: every write of the configuration JSON by new or delete comes after
\* the copy of the then-current JSON to the .backup sibling: once the write
\* succeeded the .backup holds what the JSON held just before, a failed
\* update leaves the JSON as it was, and the JSON never differs from what it
\* was before the operation unless the .backup holds that earlier content.
C11_BackupPrecedesWrite ==
    /\ (InNew /\ hist.cfg_ok) => config_backup = hist.pre[1]
    /\ (InNew /\ hist.cfg_failed) => config_json = hist.pre[1]
    /\ (InDelete /\ hist.cfg_called /\ LastResult = "success") =>
          config_backup = hist.pre[1]
    /\ (InDelete /\ hist.cfg_called /\ LastResult = "cfg_failed") =>
          config_json = hist.pre[1]
    /\ (hist.name # "none" /\ config_json # hist.pre[1]) => config_backup = hist.pre[1]

\* C11 witness: delete rewrote the JSON that the new before it had written;
\* the .backup, which held the JSON from before the new, was replaced.
C11_Witness ==
    /\ InDelete /\ hist.cfg_called /\ LastResult = "success"
    /\ config_json # hist.pre[1]
    /\ prev.command = "new" /\ prev.created
    /\ hist.pre[2] # NoFile /\ hist.pre[2] # hist.pre[1]


\* C15: an interrupt or an end of input at a prompt is taken as a decline of
\* the package concerned and never ends the process: no invocation stops on
\* KeyboardInterrupt or EOFError.
C15_PromptInterruptDeclines ==
    ~(pc = "crashed" /\ error \in {"KeyboardInterrupt", "EOFError"})


\* ------------------------------------------- the [y/N] prompts, taken alone
\* The yes/no prompts of the program: those asked through _confirm_action
\* (install 743, uninstall 821, adopt 894, privileged removal 1062, git
\* commit 1100, new 1322) and the two delete asks itself (1568, 1593).
PromptSites == {"confirm_action", "delete_stale_symlinks", "delete_no_backup"}

YesNoChars == {"y", "e", "s", "Y", " "}
YesNoTexts == SeqsUpTo(YesNoChars, MaxAnswer)

\* Whether the answer lets the operation go on at that prompt.
TakenAsYes(site, ev) ==
    IF site = "confirm_action" THEN ConfirmAction(ev) = "yes" ELSE DeleteYes(ev)

AskPrompt ==
    /\ prompt.site # "none"
    /\ ~prompt.asked
    /\ prompt' = [prompt EXCEPT !.asked = TRUE,
                                !.yes = TakenAsYes(prompt.site, prompt.ev)]
    /\ UNCHANGED <<disk, os_imported, tools, probe, pc, budget, cfg, args, idx,
                   md, backup_path, hist, results, calls, prev, error>>

InitPrompt ==
    /\ \E s \in {sh \in PShapes : sh.ord = NoDir /\ sh.sudo = NoDir} :
           \E o \in OtherShapes : InitRepo(s, o)
    /\ os_imported = FALSE
    /\ tools = AllTools
    /\ budget = 0
    /\ pc = "start" /\ cfg = NoFile /\ args = NoArgs /\ idx = 1 /\ md = NoMd
    /\ backup_path = FALSE /\ hist = NoHist /\ results = <<>> /\ calls = {}
    /\ prev = NoPrev /\ error = "none"
    /\ probe = NoProbe
    /\ prompt \in [site : PromptSites, ev : PromptEvents(YesNoTexts),
                   asked : {FALSE}, yes : {FALSE}]

SpecPrompt == InitPrompt /\ [][AskPrompt]_vars

C20_KeepFilesOnlyConfig ==
    (InDelete /\ args.keep_files /\ hist.name # "none") =>
        /\ ord_dir = hist.pre[3]
        /\ sudo_dir = hist.pre[4]
        /\ pkg_backups = hist.pre[8]
        /\ tgt = hist.pre[5]
        /\ alt = hist.pre[6]
        /\ sys = hist.pre[7]


\* ============================== install, uninstall, restow, adopt
\* Package arguments as typed: a name, or name:file.  A token is the
\* sequence of its parts, with ":" a part of its own.
CmdTokens == {<<"p">>, <<"q">>, <<"r">>, <<"p", ":", "f">>, <<"p", ":">>}

FirstColon(package_spec) ==
    CHOOSE i \in 1..Len(package_spec) :
        package_spec[i] = ":" /\ \A j \in 1..(i - 1) : package_spec[j] # ":"

\* _parse_package_spec: split at the first ":"; without one the file is
\* None, which the callers treat like the empty string (<<>> here).
ParsePackageSpec(package_spec) ==
    IF Contains(package_spec, ":")
    THEN LET i == FirstColon(package_spec)
         IN [name |-> SubSeq(package_spec, 1, i - 1),
             file |-> SubSeq(package_spec, i + 1, Len(package_spec))]
    ELSE [name |-> package_spec, file |-> <<>>]

\* The package a sequence of parts names: the names of the repository are
\* single parts, and no longer name is the name of a directory (no token
\* of CmdTokens has an empty name).
IsName(parts) == Len(parts) = 1 /\ parts[1] \in Names

\* package_specs[pkg_name] = specific_file: a dict keeps the position of
\* the first insertion of a key and the value of the last.
DictSet(d, k, v) ==
    IF \E i \in 1..Len(d) : d[i].name = k
    THEN [i \in 1..Len(d) |-> IF d[i].name = k THEN [name |-> k, file |-> v] ELSE d[i]]
    ELSE Append(d, [name |-> k, file |-> v])

RECURSIVE PackageSpecs(_)
PackageSpecs(packages) ==
    IF packages = <<>> THEN <<>>
    ELSE LET ps == ParsePackageSpec(packages[Len(packages)])
         IN DictSet(PackageSpecs(SubSeq(packages, 1, Len(packages) - 1)),
                    ps.name, ps.file)

\* main, lines 1935-1954: --all takes the all_packages of the configuration.
CmdPackages ==
    IF args.all THEN [i \in 1..Len(cfg.all_packages) |-> <<cfg.all_packages[i]>>]
    ELSE args.packages

IsValidSpec(e) == IsName(e.name) /\ IsValidPackage(e.name[1])

\* valid_packages of install and uninstall, with the file asked for, and
\* of adopt (which parses nothing and keeps repetitions).
ValidPackages ==
    IF args.command = "adopt"
    THEN LET whole == [i \in 1..Len(args.packages) |->
                          [name |-> args.packages[i], file |-> <<>>]]
             valid == SelectSeq(whole, IsValidSpec)
         IN [i \in 1..Len(valid) |-> [name |-> valid[i].name[1], file |-> <<>>]]
    ELSE LET valid == SelectSeq(PackageSpecs(CmdPackages), IsValidSpec)
         IN [i \in 1..Len(valid) |-> [name |-> valid[i].name[1], file |-> valid[i].file]]

IsSudoPackage(package) == Contains(cfg.sudo_packages, package)

StowMode == IF args.command = "uninstall" THEN "-D"
            ELSE IF args.command = "adopt" THEN "--adopt" ELSE "-R"

DryRunStowCallsForReal(valid) ==
    {StowCall(StowMode, FALSE, valid[i].name) :
        i \in {j \in 1..Len(valid) : ~IsSudoPackage(valid[j].name)}}

\* _dry_run_stow for every valid package that is not in sudo_packages.
DryRunStowCalls(valid) ==
    {StowCall(StowMode, TRUE, valid[i].name) :
        i \in {j \in 1..Len(valid) : ~IsSudoPackage(valid[j].name)}}

AllConflictsFirstOnly(valid) ==
    {[name |-> valid[1].name, file |-> f] : f \in CheckConflicts(valid[1].name)}

\* all_conflicts of install: the conflicting target files of every valid
\* package, as [name, file].
AllConflicts(valid) ==
    UNION {{[name |-> valid[i].name, file |-> f] : f \in CheckConflicts(valid[i].name)}
              : i \in 1..Len(valid)}

\* stow -R <package>: every package file gets its symlink; a regular file
\* at the path of one of them makes the linker exit non-zero.
StowRestow(t, package) ==
    [t EXCEPT ![package] =
        [f \in Files |-> IF f \in ord_dir[package] THEN "link" ELSE t[package][f]]]

StowCanSucceed(mode, package) ==
    /\ ord_dir[package] # NoDir
    /\ mode = "-R" => \A f \in ord_dir[package] : tgt[package][f] # "file"

StowEffect(mode, package) ==
    IF mode = "-R" THEN StowRestow(tgt, package)
    ELSE IF mode = "-D" THEN StowDelete(tgt, package)
    ELSE StowAdopt(tgt, package)


\* _install_special_file for the mappings `maps`, with the destinations `s`
\* present: an existing destination is first copied to <dst>.backup, then
\* the source is copied over it (sudo cp and sudo chown, or copy2); every
\* error is caught and the next mapping is taken.
RECURSIVE SudoInstallOutcomes(_, _, _)
SudoInstallOutcomes(maps, package, s) ==
    IF maps = <<>>
    THEN {[sys |-> s, end |-> "returned", calls |-> {}, asked |-> <<>>]}
    ELSE LET m == Head(maps)
             rest == SudoInstallOutcomes(Tail(maps), package, s)
         IN IF MapSrc(m) \notin sudo_dir[package] THEN rest
            ELSE LET cp == IF MapSudo(m) THEN {SudoCall("cp", m, package)} ELSE {}
                     chown == IF MapSudo(m) THEN {SudoCall("chown", m, package)} ELSE {}
                 IN {[o EXCEPT !.calls = @ \cup cp \cup chown] :
                        o \in SudoInstallOutcomes(Tail(maps), package, s \cup {m})}
                    \cup {[o EXCEPT !.calls = @ \cup cp] : o \in rest}

\* _handle_sudo_package: the mappings of the package, narrowed to the file
\* asked for when one is given.
FilesToProcess(package, specific_file) ==
    IF cfg.special_files[package] = NoEntry THEN <<>>
    ELSE IF specific_file # <<>>
    THEN SelectSeq(cfg.special_files[package], LAMBDA m : <<MapSrc(m)>> = specific_file)
    ELSE cfg.special_files[package]

HandleSudoPackage(package, operation, specific_file) ==
    IF operation = "install"
    THEN SudoInstallOutcomes(FilesToProcess(package, specific_file), package, sys)
    ELSE SudoUninstallOutcomes(FilesToProcess(package, specific_file), package, sys)

\* ------------------------------------------------- the commands: steps
\* `return` of a command function.
CmdReturn(result) == results' = <<result>> /\ pc' = "done" /\ UNCHANGED error

CmdCrash(name) == pc' = "crashed" /\ error' = name /\ UNCHANGED results

\* _create_backup (lines 685-705): nothing for an empty list; otherwise
\* .backups/<timestamp>/ is made and the conflicting files are copied under
\* it; shutil.copy2 is in no try, so a failing copy ends the run with the
\* directory and the files copied before it in place.
CreateBackup(conflicts) ==
    IF conflicts = {} THEN /\ pc' = "cmd_exec"
                           /\ UNCHANGED <<file_backups, results, error>>
    ELSE \E copied \in SUBSET conflicts :
            /\ file_backups' = file_backups \cup {copied}
            /\ IF copied = conflicts
               THEN pc' = "cmd_exec" /\ UNCHANGED <<results, error>>
               ELSE CmdCrash("OSError")

\* dry_run_results of install (lines 724-733): the valid packages whose
\* simulated linker run exits non-zero; a package of sudo_packages is
\* entered as a success without a run (kept for a confirmed install only).
SimulatedFailures(valid) ==
    IF args.command = "uninstall" \/ args.dry_run THEN {{}}
    ELSE SUBSET {valid[i].name : i \in {j \in 1..Len(valid) : ~IsSudoPackage(valid[j].name)}}

\* install / uninstall (restow is install), lines 711-754 and 789-823:
\* parse, validate, simulate, preview, stop on --dry-run, confirm, and for
\* install back the conflicting files up.
CmdBegin ==
    /\ pc = "cmd_begin"
    /\ \E failed \in SimulatedFailures(ValidPackages) :
       LET valid == ValidPackages
           h == [hist EXCEPT !.name = "batch", !.pre = disk, !.sim_failed = failed]
       IN IF valid = <<>>
          THEN /\ CmdReturn("no_valid")
               /\ hist' = h
               /\ UNCHANGED <<file_backups, calls>>
          ELSE /\ calls' = calls \cup DryRunStowCalls(valid)
               /\ IF args.dry_run
                  THEN /\ CmdReturn("dry_run")
                       /\ hist' = h
                       /\ UNCHANGED file_backups
                  ELSE \E ev \in PromptEvents(AnswerTexts) :
                         LET answer == ConfirmAction(ev) IN
                         /\ hist' = [h EXCEPT !.prompted = TRUE,
                                              !.confirmed = (answer = "yes"),
                                              !.said_no = TypedNo(ev)]
                         /\ IF answer = "yes"
                            THEN IF args.command = "uninstall"
                                 THEN /\ pc' = "cmd_exec"
                                      /\ UNCHANGED <<file_backups, results, error>>
                                 ELSE CreateBackup(AllConflicts(valid))
                            ELSE IF answer = "no"
                            THEN CmdReturn("cancelled") /\ UNCHANGED file_backups
                            ELSE CmdCrash(ExceptionName(answer)) /\ UNCHANGED file_backups
    /\ UNCHANGED <<config_json, config_backup, ord_dir, sudo_dir, tgt, alt, sys,
                   pkg_backups, os_imported, tools, prompt, probe, budget, cfg, args, idx,
                   md, backup_path, prev>>

AfterLinkerStopsOnError(ok, last, loop, end) == IF last \/ ~ok THEN end ELSE loop

\* Where a loop goes after the linker has run for a package: its non-zero
\* exit (CalledProcessError) is caught inside the loop body, so the next
\* package is taken whether it succeeded or not.
AfterLinker(ok, last, loop, end) == IF last THEN end ELSE loop

LogEntry(package, handler, ok) == [package |-> package, handler |-> handler, ok |-> ok]

PackagesToRunReadyOnly(valid, failed) ==
    SelectSeq(valid, LAMBDA e : e.name \notin failed)

\* `for package in valid_packages` (lines 758, 827): the loop runs over
\* the valid packages, dry_run_results being read by the preview only.
PackagesToRun(valid, failed) == valid

\* The execution loops (lines 756-785, 825-854): one valid package per
\* step, in list order; a package of sudo_packages goes to the privileged
\* handler, any other to the linker, whose non-zero exit is caught.
CmdExec ==
    /\ pc = "cmd_exec"
    /\ idx <= Len(PackagesToRun(ValidPackages, hist.sim_failed))
    /\ LET valid == PackagesToRun(ValidPackages, hist.sim_failed)
           package == valid[idx].name
           operation == IF args.command = "uninstall" THEN "uninstall" ELSE "install"
           after == IF idx = Len(valid) THEN "done" ELSE "cmd_exec"
       IN IF IsSudoPackage(package)
          THEN \E o \in HandleSudoPackage(package, operation, valid[idx].file) :
                 /\ sys' = o.sys
                 /\ calls' = calls \cup o.calls
                 /\ hist' = [hist EXCEPT
                                 !.log = Append(@, LogEntry(package, "sudo", o.end = "returned")),
                                 !.asked = @ \o o.asked]
                 /\ IF o.end = "returned"
                    THEN /\ pc' = after
                         /\ results' = IF after = "done" THEN <<"completed">> ELSE results
                         /\ UNCHANGED error
                    ELSE CmdCrash(ExceptionName(o.end))
                 /\ UNCHANGED tgt
          ELSE \E ok \in {b \in BOOLEAN : b => StowCanSucceed(StowMode, package)} :
                 /\ tgt' = IF ok THEN StowEffect(StowMode, package) ELSE tgt
                 /\ calls' = calls \cup {StowCall(StowMode, FALSE, package)}
                 /\ hist' = [hist EXCEPT !.log = Append(@, LogEntry(package, "stow", ok))]
                 /\ pc' = AfterLinker(ok, idx = Len(valid), "cmd_exec", "done")
                 /\ results' = IF pc' = "done" THEN <<"completed">> ELSE results
                 /\ UNCHANGED <<sys, error>>
    /\ idx' = idx + 1
    /\ UNCHANGED <<config_json, config_backup, ord_dir, sudo_dir, alt, pkg_backups,
                   file_backups, os_imported, tools, prompt, probe, budget, cfg, args, md,
                   backup_path, prev>>


TotalOfFirst(valid) ==
    IF valid = <<>> THEN 0 ELSE Cardinality(CheckConflicts(valid[1].name))

Total(valid) ==
    LET n(i) == Cardinality(CheckConflicts(valid[i].name))
        sum[i \in 0..Len(valid)] == IF i = 0 THEN 0 ELSE sum[i - 1] + n(i)
    IN sum[Len(valid)]

\* adopt, lines 865-896: validate, count the conflicts, confirm.
AdoptBegin ==
    /\ pc = "adopt_begin"
    /\ LET valid == ValidPackages
           h == [hist EXCEPT !.name = "batch", !.pre = disk]
       IN IF valid = <<>>
          THEN CmdReturn("no_valid") /\ hist' = h
          ELSE IF Total(valid) = 0
          THEN CmdReturn("no_conflicts") /\ hist' = h
          ELSE \E ev \in PromptEvents(AnswerTexts) :
                 LET answer == ConfirmAction(ev) IN
                 /\ hist' = [h EXCEPT !.prompted = TRUE, !.confirmed = (answer = "yes"),
                                      !.said_no = TypedNo(ev)]
                 /\ IF answer = "yes"
                    THEN pc' = "adopt_exec" /\ UNCHANGED <<results, error>>
                    ELSE IF answer = "no"
                    THEN CmdReturn("cancelled")
                    ELSE CmdCrash(ExceptionName(answer))
    /\ UNCHANGED <<disk, os_imported, tools, prompt, probe, budget, cfg, args, idx, md,
                   backup_path, calls, prev>>

\* Lines 898-921: stow --adopt for every valid package, in list order; a
\* non-zero exit is caught.
AdoptExec ==
    /\ pc = "adopt_exec"
    /\ LET valid == ValidPackages
           package == valid[idx].name
       IN \E ok \in {b \in BOOLEAN : b => StowCanSucceed("--adopt", package)} :
            /\ tgt' = IF ok THEN StowEffect("--adopt", package) ELSE tgt
            /\ calls' = calls \cup {StowCall("--adopt", FALSE, package)}
            /\ hist' = [hist EXCEPT !.log = Append(@, LogEntry(package, "stow", ok))]
            /\ pc' = AfterLinker(ok, idx = Len(valid), "adopt_exec", "adopt_git")
    /\ idx' = idx + 1
    /\ UNCHANGED <<config_json, config_backup, ord_dir, sudo_dir, alt, sys,
                   pkg_backups, file_backups, os_imported, tools, prompt, probe, budget,
                   cfg, args, md, backup_path, results, prev, error>>

GitCall(mode) ==
    [tool |-> "git", mode |-> mode, simulate |-> FALSE, package |-> "",
     target |-> "dotfiles_dir"]

\* What is typed at "Commit message (or Enter for auto)".
CommitMessages == {<<>>, <<"p">>}

\* One step of the record: its name and what was typed at it.
GitStep(step, typed) == [step |-> step, typed |-> typed]

\* What was typed at the commit confirmation, read off the line itself.
TypedAt(ev) ==
    IF ev.kind # "text" THEN ev.kind ELSE IF TypedNo(ev) THEN "no" ELSE "yes"

GitStepsCommitUnasked(ev, msg, add_ok) ==
    <<GitStep("diff", "none"), GitStep("confirm", TypedAt(ev)),
      GitStep("message", msg.kind), GitStep("add", "none"), GitStep("commit", "none")>>

\* The version-control steps in the order the code takes them, up to the
\* one it stops at: _git_show_diff, _git_prompt_commit, and in
\* _git_create_commit the message prompt, git add -A (a non-zero exit of
\* which skips the commit) and git commit.
GitSteps(ev, msg, add_ok) ==
    <<GitStep("diff", "none"), GitStep("confirm", TypedAt(ev))>>
        \o (IF ConfirmAction(ev) # "yes" THEN <<>>
            ELSE <<GitStep("message", msg.kind)>>
                    \o (IF msg.kind # "text" THEN <<>>
                        ELSE <<GitStep("add", "none")>>
                                \o (IF add_ok THEN <<GitStep("commit", "none")>> ELSE <<>>)))

\* Lines 923-927 with 1085-1126: unless --no-git or git is missing, show
\* the diff, ask, read the message (an input() in no try), git add -A and
\* git commit, whose non-zero exits are caught.
AdoptGit ==
    /\ pc = "adopt_git"
    /\ IF args.no_git \/ ~tools.git
       THEN CmdReturn("completed") /\ UNCHANGED <<calls, hist>>
       ELSE \E ev \in PromptEvents(AnswerTexts), msg \in PromptEvents(CommitMessages),
               add_ok \in BOOLEAN :
              LET answer == ConfirmAction(ev)
                  steps == GitSteps(ev, msg, add_ok)
              IN /\ hist' = [hist EXCEPT !.git = steps]
                 /\ calls' = calls \cup {GitCall(steps[i].step) :
                                            i \in {j \in 1..Len(steps) :
                                                steps[j].step \in {"diff", "add", "commit"}}}
                 /\ IF answer \in {"eof", "interrupt"}
                    THEN CmdCrash(ExceptionName(answer))
                    ELSE IF answer = "yes" /\ msg.kind # "text"
                    THEN CmdCrash(ExceptionName(msg.kind))
                    ELSE CmdReturn("completed")
    /\ UNCHANGED <<disk, os_imported, tools, prompt, probe, budget, cfg, args, idx, md,
                   backup_path, prev>>

CmdSteps ==
    \/ CmdBegin
    \/ CmdExec
    \/ AdoptBegin
    \/ AdoptExec
    \/ AdoptGit

\* ------------------------------------------------- the commands: main
CmdArgs ==
    {a \in [command : {"install", "uninstall", "restow", "adopt"},
            packages : SeqsUpTo(CmdTokens, MaxList),
            force : {FALSE}, dry_run : BOOLEAN, keep_files : {FALSE},
            no_backup : {FALSE}, package_name : {"p"}, from_path : {"none"},
            from_exists : {FALSE}, is_sudo : {FALSE}, custom_target : {FALSE},
            all : BOOLEAN, no_git : BOOLEAN] :
        /\ a.all => a.packages = <<>>
        /\ a.command = "adopt" => a.packages # <<>> /\ ~a.all /\ ~a.dry_run
        /\ a.command # "adopt" => ~a.no_git}

\* main, lines 1926-1957: the dependency check, then for install, uninstall
\* and restow `if not packages: sys.exit(1)`.
MainCmd ==
    Idle /\ budget > 0 /\ \E a \in CmdArgs :
        /\ Main(a)
        /\ pc' = IF ~tools.stow THEN "exited"
                 ELSE IF a.command = "adopt" THEN "adopt_begin"
                 ELSE IF (IF a.all THEN config_json.all_packages ELSE a.packages) = <<>>
                 THEN "exited"
                 ELSE "cmd_begin"

\* The repositories the commands are run in: p ordinary, privileged or
\* missing, with a regular file or a symlink at the target path of its f.
CmdShapes ==
    {s \in [ord : {NoDir, {"f", ".gitkeep"}},
            sudo : {NoDir, {"f"}, {"f", ".gitkeep"}},
            in_all : BOOLEAN, in_sudo : BOOLEAN, has_target : {FALSE},
            special : {NoEntry, <<"m1", "m2">>},
            sysd : {{}, {"m1"}, {"m1", "m2"}},
            tf : {"absent", "file", "link"}, tg : {"absent", "file"}, inalt : {FALSE}] :
        /\ s.tg = "file" => s.tf = "file" /\ s.ord # NoDir
        /\ s.sudo # NoDir => s.in_sudo
        /\ (s.in_sudo /\ s.sudo = NoDir) =>
              s.ord # NoDir /\ s.special = NoEntry /\ s.tf = "absent"
        /\ s.sudo = {"f", ".gitkeep"} => s.special # NoEntry /\ s.tf = "absent"
        /\ s.sysd = {"m1", "m2"} <=> (s.sudo = {"f", ".gitkeep"} /\ s.sysd # {})
        /\ s.sudo # NoDir => s.ord = NoDir
        /\ s.in_all <=> (s.ord # NoDir \/ s.sudo # NoDir)
        /\ s.has_target => s.ord # NoDir
        /\ s.special # NoEntry => s.in_sudo
        /\ s.sysd # {} => s.special # NoEntry
        /\ s.tf = "link" => s.ord # NoDir
        /\ s.tf = "file" => s.in_all}

ToolSets == {AllTools, [stow |-> FALSE, git |-> TRUE], [stow |-> TRUE, git |-> FALSE]}

InitCmd ==
    /\ \E s \in CmdShapes, o \in OtherShapes : InitRepo(s, o)
    /\ InitProcess
    /\ budget = 1
    /\ os_imported = FALSE
    /\ tools \in ToolSets

NextCmd == MainCmd \/ CmdSteps

SpecCmd == InitCmd /\ [][NextCmd]_vars


\* ------------------------------------------------ one invocation, any
\* One invocation of any of the six commands on the module as shipped.
InitAny ==
    /\ \E s \in CmdShapes, o \in OtherShapes : InitRepo(s, o)
    /\ InitProcess
    /\ budget = 1
    /\ os_imported = FALSE
    /\ tools \in ToolSets

NextAny == MainCmd \/ MainNew \/ MainDelete \/ CmdSteps \/ NewSteps \/ DeleteSteps

SpecAny == InitAny /\ [][NextAny]_vars

RealCalls == {c \in calls : ~c.simulate}

\* C12: with --dry-run, install, uninstall, restow, new and delete stop
\* after the preview: the disk (package directories, targets, privileged
\* destinations, backups, the JSON and its backup) is as it was when the
\* command took the work up, every linker invocation made is a simulated
\* one, and no confirmation was asked.
C12_DryRunStopsAfterPreview ==
    (args.dry_run /\ hist.name # "none") =>
        /\ disk = hist.pre
        /\ RealCalls = {}
        /\ ~hist.prompted

C12_Witness ==
    /\ args.command = "install" /\ args.dry_run /\ pc = "done"
    /\ results = <<"dry_run">>
    /\ AllConflicts(ValidPackages) # {}
    /\ calls # {}


\* The operator was asked the confirmation of the command and did not
\* answer yes, and the command returned.
Declined ==
    /\ args.command \in {"install", "uninstall", "restow", "adopt", "new"}
    /\ hist.prompted /\ hist.said_no

\* C13: when the confirmation of install, uninstall, restow, adopt or new
\* is declined the command ends with no mutation: no linker invocation
\* without -n, no backup, no privileged copy or removal, no package
\* directory, no write of the configuration.
C13_DeclineMutatesNothing ==
    Declined => /\ disk = hist.pre
                /\ RealCalls = {}
                /\ pc = "done"
                /\ results = <<"cancelled">>

C13_Witness ==
    /\ Declined
    /\ args.command = "install"
    /\ AllConflicts(ValidPackages) # {}
    /\ \E i \in 1..Len(ValidPackages) : IsSudoPackage(ValidPackages[i].name)


\* The target the configuration gives an ordinary package.
EffectiveTarget(package) ==
    IF package \in cfg.package_targets THEN "package_target" ELSE "target_dir"

\* C16: every linker invocation of install and uninstall, simulated or
\* real, is made on the effective target of its package: its
\* package_targets override when it has one, target_dir otherwise.
C16_EffectiveTargetUsed ==
    \A c \in calls :
        (c.tool = "stow" /\ args.command \in {"install", "uninstall", "restow"}) =>
            c.target = EffectiveTarget(c.package)


\* C17: no command issues a linker invocation, simulated or real, for a
\* package whose name is in sudo_packages.
C17_NoLinkerForPrivileged ==
    \A c \in calls : c.tool = "stow" => ~IsSudoPackage(c.package)


\* The packages the execution loop has taken so far, in the order taken.
Attempted == [i \in 1..Len(hist.log) |-> hist.log[i].package]

ValidNames == [i \in 1..Len(ValidPackages) |-> ValidPackages[i].name]

\* C18: in a confirmed install, uninstall, restow or adopt the packages are
\* taken in list order, and a non-zero exit of the linker for one of them
\* does not end the batch: when the loop is left every valid package has
\* been attempted, and a run that breaks off earlier broke off in the
\* privileged handler (or before the loop), never after a linker call.
C18_LinkerFailureDoesNotAbort ==
    (hist.name = "batch" /\ hist.confirmed) =>
        /\ Len(Attempted) <= Len(ValidNames)
        /\ Attempted = SubSeq(ValidNames, 1, Len(Attempted))
        /\ pc \in {"done", "adopt_git"} => Attempted = ValidNames
        /\ (pc = "crashed" /\ Attempted # <<>> /\ Attempted # ValidNames) =>
               hist.log[Len(hist.log)].handler = "sudo"

C18_Witness ==
    /\ hist.name = "batch" /\ hist.confirmed /\ pc = "done"
    /\ Len(hist.log) = 2
    /\ hist.log[1].handler = "stow" /\ ~hist.log[1].ok
    /\ hist.log[2].handler = "stow" /\ hist.log[2].ok


\* The exit status of the process once the invocation is over: sys.exit(1),
\* or the status 1 the interpreter gives an uncaught exception, or 0.
ExitStatus == IF pc \in {"exited", "crashed"} THEN 1 ELSE 0

\* C19: the process exits non-zero exactly when the linker is missing or
\* when install, uninstall or restow is given no package list without
\* --all; in every other case the exit status is zero.
C19_ExitStatus ==
    pc \in {"done", "exited", "crashed"} =>
        (ExitStatus # 0 <=>
            \/ ~tools.stow
            \/ /\ args.command \in {"install", "uninstall", "restow"}
               /\ args.packages = <<>>
               /\ ~args.all)


ProbeNames ==
    SeqsUpTo({".", "g", "i", "t", " ", ":", "\r"}, MaxName)
        \cup ReservedNames
        \cup {<<"l", "o", "g", "s">>, <<"s", "u", "d", "o">>, <<"a", "|", "b">>}

ValidateStep ==
    /\ ~probe.done
    /\ probe' = [probe EXCEPT !.done = TRUE, !.out = ValidName(probe.arg)]
    /\ UNCHANGED <<disk, os_imported, tools, prompt, pc, budget, cfg, args, idx,
                   md, backup_path, hist, results, calls, prev, error>>

InitValidate ==
    /\ \E s \in {sh \in NewShapes : sh.ord = NoDir /\ sh.sudo = NoDir /\ ~sh.in_all
                                     /\ ~sh.in_sudo /\ sh.tf = "absent"} :
           InitRepo(s, "alone")
    /\ os_imported = FALSE
    /\ tools = AllTools
    /\ budget = 0
    /\ pc = "start" /\ cfg = NoFile /\ args = NoArgs /\ idx = 1 /\ md = NoMd
    /\ backup_path = FALSE /\ hist = NoHist /\ results = <<>> /\ calls = {}
    /\ prev = NoPrev /\ error = "none"
    /\ prompt = NoPrompt
    /\ probe \in [arg : ProbeNames, done : {FALSE}, out : {FALSE}]

SpecValidate == InitValidate /\ [][ValidateStep]_vars

\* The rejection rule as the specification words it.
Rejected(s) ==
    \/ s = <<>>
    \/ \A i \in 1..Len(s) : s[i] \in {" ", "\t", "\n", "\r"}
    \/ \E i \in 1..Len(s) :
          s[i] \in {"/", "\\", " ", "\t", "\n", ":", "*", "?", "\"", "<", ">", "|"}
    \/ s \in {<<".">>, <<".", ".">>, <<".", "g", "i", "t">>,
              <<".", "l", "o", "g", "s">>,
              <<".", "b", "a", "c", "k", "u", "p", "s">>,
              <<"s", "u", "d", "o", "_", "p", "a", "c", "k", "a", "g", "e", "s">>}
    \/ s[1] = "."

\* C22: the name validation rejects a string exactly when it is empty or
\* whitespace only, holds a forbidden character, is a reserved name, or
\* starts with a dot.
C22_ValidateNewName == probe.done => (probe.out <=> ~Rejected(probe.arg))

C22_Witness ==
    /\ probe.done /\ ~probe.out
    /\ probe.arg = <<"s", "u", "d", "o", "_", "p", "a", "c", "k", "a", "g", "e", "s">>


\* The tokens of the command line that name the package n.
TokensFor(n) ==
    {args.packages[i] : i \in {j \in 1..Len(args.packages) :
                                  args.packages[j] # <<>> /\ args.packages[j][1] = n}}

\* The privileged handler copied to, or removed, the destination of m, or
\* ran an elevated command for it.
Touched(m) ==
    \/ (m \in sys) # (m \in hist.pre[7])
    \/ \E c \in calls : c.tool = "sudo" /\ c.target = m

\* C23: when the only token that names a privileged package is pkg:file,
\* install and uninstall touch no mapping of pkg but those whose src is
\* file; with no such mapping nothing is copied or removed.
C23_OnlyTheFileAskedFor ==
    (hist.name = "batch" /\ args.command \in {"install", "uninstall", "restow"}) =>
        \A tok \in TokensFor("p") :
            (TokensFor("p") = {tok} /\ Len(tok) >= 2 /\ tok[2] = ":") =>
                \A m \in Maps : Touched(m) => <<MapSrc(m)>> = SubSeq(tok, 3, Len(tok))


AskedMaps == {hist.asked[i].m : i \in 1..Len(hist.asked)}

AnsweredYes(m) ==
    \E i \in 1..Len(hist.asked) : hist.asked[i].m = m /\ ~hist.asked[i].no

Refused(m) ==
    \E i \in 1..Len(hist.asked) : hist.asked[i].m = m /\ hist.asked[i].no

\* The mappings the uninstall was to handle: those of the valid privileged
\* packages (narrowed to the file asked for) whose source file exists.
ToUninstall ==
    UNION {{FilesToProcess(ValidPackages[i].name, ValidPackages[i].file)[k] :
               k \in {j \in 1..Len(FilesToProcess(ValidPackages[i].name,
                                                  ValidPackages[i].file)) :
                         MapSrc(FilesToProcess(ValidPackages[i].name,
                                               ValidPackages[i].file)[j])
                             \in sudo_dir[ValidPackages[i].name]}}
              : i \in {j \in 1..Len(ValidPackages) :
                          IsSudoPackage(ValidPackages[j].name)}}

\* C24: the privileged uninstall removes a destination only after its own
\* confirmation was answered yes; a destination that does not exist is not
\* asked about and nothing is removed for it; a refusal leaves the
\* destination in place, and the mappings after it are still handled.
C24_PerFileConfirmation ==
    (hist.name = "batch" /\ args.command = "uninstall") =>
        /\ sys \subseteq hist.pre[7]
        /\ \A m \in hist.pre[7] \ sys : AnsweredYes(m)
        /\ \A c \in calls : c.tool = "sudo" => c.mode = "rm" /\ AnsweredYes(c.target)
        /\ AskedMaps \subseteq hist.pre[7]
        /\ \A m \in Maps : Refused(m) => m \in sys
        /\ pc = "done" /\ hist.confirmed => (ToUninstall \cap hist.pre[7]) \subseteq AskedMaps

C24_Witness ==
    /\ hist.name = "batch" /\ args.command = "uninstall" /\ pc = "done"
    /\ Len(hist.asked) = 2
    /\ hist.asked[1].m = "m1" /\ hist.asked[1].no
    /\ hist.asked[2].m = "m2" /\ ~hist.asked[2].no
    /\ sys = {"m1"}


GitOrder == <<"diff", "confirm", "message", "add", "commit">>

GitTaken == [i \in 1..Len(hist.git) |-> hist.git[i].step]

GitCalls == {c \in calls : c.tool = "git"}

\* What holds of the version-control steps in every state.
GitStepsInPlace ==
    /\ (hist.git # <<>> \/ GitCalls # {}) =>
          /\ args.command = "adopt" /\ ~args.no_git /\ tools.git
          /\ hist.confirmed /\ Attempted = ValidNames
    /\ Len(hist.git) <= Len(GitOrder)
    /\ GitTaken = SubSeq(GitOrder, 1, Len(hist.git))
    /\ GitCalls = {GitCall(GitTaken[i]) :
                     i \in {j \in 1..Len(GitTaken) : GitTaken[j] \in {"diff", "add", "commit"}}}
    /\ Len(hist.git) >= 3 => hist.git[2].typed = "yes"
    /\ Len(hist.git) >= 4 => hist.git[3].typed = "text"

\* C25: the version-control steps come after the linker invocations of
\* adopt, only in an adopt that was not given --no-git (never in the adopt
\* new runs) and with git present, in the order diff, confirmation, message
\* prompt, git add, git commit; nothing is staged or committed unless the
\* confirmation was answered yes; and the step that runs them leaves the
\* disk, the adopted links among it, as the linker left it.
C25_GitAfterAdopt ==
    /\ []GitStepsInPlace
    /\ [][pc = "adopt_git" => disk' = disk]_vars

C25_Witness ==
    /\ pc = "done" /\ args.command = "adopt"
    /\ GitTaken = GitOrder
    /\ tgt # hist.pre[5]


\* --------------------------------- load_config_file and list, taken alone
\* default_config of load_config_file (lines 1684-1700).
DefaultConfig ==
    [all_packages |-> <<"zsh", "p10k.zsh", "vim", "tmux", "wezterm", "ghostty",
                        "kitty", "starship", "etc">>,
     sudo_packages |-> <<"etc">>,
     package_targets |-> {},
     special_files |-> [n \in Names |-> NoEntry]]

\* What .dotfiles-config.json can be: absent; there but not openable (no
\* permission, a directory); text that is not JSON; bytes that are not
\* UTF-8; or a JSON object, read as the configuration it holds.
FileKinds == {"absent", "unreadable", "syntax", "bytes", "object"}

ConfigFiles ==
    [kind : {"absent", "syntax", "bytes"}, data : {NoFile}]
        \cup [kind : {"unreadable", "object"},
              data : {RepoConfig(s, o) : s \in CmdShapes \cup NewShapes, o \in OtherShapes}]

\* The exception reading the file raises, by kind: open() an OSError,
\* json.load a JSONDecodeError on bad syntax, and the utf-8 decoding inside
\* f.read() a UnicodeDecodeError, a ValueError that is no JSONDecodeError.
ReadError(file) ==
    IF file.kind = "unreadable" THEN "OSError"
    ELSE IF file.kind = "syntax" THEN "JSONDecodeError"
    ELSE IF file.kind = "bytes" THEN "UnicodeDecodeError"
    ELSE "none"

\* load_config_file on such a file: the default when the file does not
\* exist (lines 1702-1703), the object when it loads, and the default with
\* a warning for what `except (json.JSONDecodeError, IOError)` catches
\* (lines 1726-1729); any other exception leaves the function.
LoadConfigFileFrom(file) ==
    IF file.kind = "absent"
    THEN [config |-> DefaultConfig, warned |-> FALSE, raised |-> "none"]
    ELSE IF ReadError(file) = "none"
    THEN [config |-> file.data, warned |-> FALSE, raised |-> "none"]
    ELSE IF ReadError(file) \in {"JSONDecodeError", "OSError"}
    THEN [config |-> DefaultConfig, warned |-> TRUE, raised |-> "none"]
    ELSE [config |-> NoFile, warned |-> FALSE, raised |-> ReadError(file)]

\* main() up to the dispatch of `list` (lines 1927-1932): create_config,
\* then the dependency check.
LoadStep ==
    /\ pc = "start"
    /\ LET r == LoadConfigFileFrom(probe.arg) IN
         IF r.raised # "none"
         THEN /\ pc' = "crashed" /\ error' = r.raised
              /\ UNCHANGED <<cfg, probe>>
         ELSE /\ cfg' = r.config
              /\ probe' = [probe EXCEPT !.out = [warned |-> r.warned, shown |-> {}, total |-> 0]]
              /\ Dispatch("list")
              /\ UNCHANGED error
    /\ UNCHANGED <<disk, os_imported, tools, prompt, budget, args, idx, md,
                   backup_path, hist, results, calls, prev>>

\* list_packages (lines 1195-1210): one line per entry of all_packages and
\* their number (the lines are printed sorted, an order not kept here).
ListStep ==
    /\ pc = "list"
    /\ pc' = "done"
    /\ probe' = [probe EXCEPT !.done = TRUE,
                              !.out.shown = {cfg.all_packages[i] : i \in 1..Len(cfg.all_packages)},
                              !.out.total = Len(cfg.all_packages)]
    /\ UNCHANGED <<disk, os_imported, tools, prompt, budget, cfg, args, idx, md,
                   backup_path, hist, results, calls, prev, error>>

InitLoad ==
    /\ \E s \in {sh \in NewShapes : sh.ord = NoDir /\ sh.sudo = NoDir /\ ~sh.in_all
                                     /\ ~sh.in_sudo /\ sh.tf = "absent"} :
           InitRepo(s, "alone")
    /\ os_imported = FALSE
    /\ tools \in ToolSets
    /\ budget = 0
    /\ pc = "start" /\ cfg = NoFile /\ args = NoArgs /\ idx = 1 /\ md = NoMd
    /\ backup_path = FALSE /\ hist = NoHist /\ results = <<>> /\ calls = {}
    /\ prev = NoPrev /\ error = "none"
    /\ prompt = NoPrompt
    /\ probe \in [arg : ConfigFiles, done : {FALSE},
                  out : {[warned |-> FALSE, shown |-> {}, total |-> 0]}]

NextLoad == LoadStep \/ ListStep

SpecLoad == InitLoad /\ [][NextLoad]_vars

DefaultNames == {DefaultConfig.all_packages[i] : i \in 1..Len(DefaultConfig.all_packages)}

\* C26: for a configuration file that is absent, unreadable or not valid
\* JSON the loader does not raise and returns the built-in default, with a
\* warning except when the file is absent; and a list that follows (the
\* linker being installed) shows the nine default packages.
C26_LoaderFallsBack ==
    probe.arg.kind # "object" =>
        /\ pc # "crashed"
        /\ pc \in {"list", "done"} =>
              /\ cfg = DefaultConfig
              /\ probe.out.warned <=> probe.arg.kind # "absent"
        /\ tools.stow /\ pc # "start" => pc \in {"list", "done"}
        /\ pc = "done" => probe.out.shown = DefaultNames /\ probe.out.total = 9

\* The same for the files load_config_file does fall back on (a reachable
\* state of each: checked apart).
C26_ExceptUndecodable ==
    probe.arg.kind \notin {"object", "bytes"} =>
        /\ pc # "crashed"
        /\ pc \in {"list", "done"} =>
              /\ cfg = DefaultConfig
              /\ probe.out.warned <=> probe.arg.kind # "absent"
        /\ tools.stow /\ pc # "start" => pc \in {"list", "done"}
        /\ pc = "done" => probe.out.shown = DefaultNames /\ probe.out.total = 9

C26_SyntaxListed ==
    pc = "done" /\ probe.arg.kind = "syntax" /\ probe.out.warned /\ probe.out.total = 9


\* ------------------------------- _check_conflicts and status, taken alone
PathKinds == {"absent", "file", "dir", "link", "elsewhere", "dangling"}

\* The files of a package directory and what lies at their target paths.
ConflictInputs == [files : SUBSET Files, target : [Files -> PathKinds]]

ConflictStep ==
    /\ ~probe.done
    /\ probe' = [probe EXCEPT !.done = TRUE,
                              !.out = ConflictsAt(probe.arg.files, probe.arg.target)]
    /\ UNCHANGED <<disk, os_imported, tools, prompt, pc, budget, cfg, args, idx,
                   md, backup_path, hist, results, calls, prev, error>>

StatusMarkExistsFirst(k) ==
    IF Exists(k) THEN "file exists, not symlink"
    ELSE IF IsSymlink(k) THEN "wrong target"
    ELSE "not installed"

\* The mark status prints for a file of a regular package (lines 1177-1193):
\* is_symlink() is asked first, then resolve() compared with the package
\* file, then exists().
StatusMark(k) ==
    IF IsSymlink(k) THEN (IF k = "link" THEN "linked" ELSE "wrong target")
    ELSE IF Exists(k) THEN "file exists, not symlink"
    ELSE "not installed"

\* The lines of status for a regular package, in sorted(package_files)
\* order (lines 1169-1193); none, under the warning Empty, without files.
StatusLines(files, target) ==
    LET line(f) == [file |-> f, mark |-> StatusMark(target[f])]
    IN (IF ".gitkeep" \in files THEN <<line(".gitkeep")>> ELSE <<>>)
          \o (IF "f" \in files THEN <<line("f")>> ELSE <<>>)

StatusStep ==
    /\ pc = "start"
    /\ pc' = "done"
    /\ results' = StatusLines(probe.arg.files, probe.arg.target)
    /\ UNCHANGED <<disk, os_imported, tools, prompt, probe, budget, cfg, args, idx,
                   md, backup_path, hist, calls, prev, error>>

InitConflicts ==
    /\ \E s \in {sh \in NewShapes : sh.ord = NoDir /\ sh.sudo = NoDir /\ ~sh.in_all
                                     /\ ~sh.in_sudo /\ sh.tf = "absent"} :
           InitRepo(s, "alone")
    /\ os_imported = FALSE
    /\ tools = AllTools
    /\ budget = 0
    /\ pc = "start" /\ cfg = NoFile /\ args = NoArgs /\ idx = 1 /\ md = NoMd
    /\ backup_path = FALSE /\ hist = NoHist /\ results = <<>> /\ calls = {}
    /\ prev = NoPrev /\ error = "none"
    /\ prompt = NoPrompt
    /\ probe \in [arg : ConflictInputs, done : {FALSE}, out : {{}}]

NextConflicts == ConflictStep \/ StatusStep

SpecConflicts == InitConflicts /\ [][NextConflicts]_vars

\* C27: check_conflicts reports exactly the package files at whose target
\* path there is something that is not a symlink: never a path holding a
\* symlink, dangling or not, and nothing when no target path holds anything.
C27_ConflictIffRealFile ==
    probe.done =>
        /\ \A f \in Files :
              f \in probe.out <=>
                  f \in probe.arg.files /\ probe.arg.target[f] \in {"file", "dir"}
        /\ \A f \in Files :
              probe.arg.target[f] \in {"link", "elsewhere", "dangling"} => f \notin probe.out
        /\ (\A f \in probe.arg.files : probe.arg.target[f] = "absent") => probe.out = {}

C27_Witness ==
    /\ probe.done
    /\ probe.arg.files = Files
    /\ probe.arg.target["f"] = "file" /\ probe.arg.target[".gitkeep"] = "dangling"
    /\ probe.out = {"f"}


\* C28: .gitkeep is no part of what conflict detection and status
\* enumerate: it is never reported as a conflict and never listed by status.
C28_GitkeepNotEnumerated ==
    /\ probe.done => ".gitkeep" \notin probe.out
    /\ pc = "done" => \A i \in 1..Len(results) : results[i].file # ".gitkeep"


\* The conflicts of the run, from the disk as the command found it: the
\* files of each valid package at whose path under target_dir a regular
\* file lay.
ConflictsBefore ==
    {e \in [name : {ValidNames[i] : i \in 1..Len(ValidNames)}, file : Files] :
        /\ e.file \in (IF Contains(hist.pre[1].sudo_packages, e.name)
                       THEN hist.pre[4][e.name] ELSE hist.pre[3][e.name])
        /\ hist.pre[5][e.name][e.file] = "file"}

BackupDirsMade == file_backups \ hist.pre[9]

\* C29: in a confirmed install (or restow) every conflicting target file of
\* every valid package has been copied into one new backup directory by the
\* time the first real linker invocation or privileged copy is made, and a
\* run without conflicts makes no backup directory.
C29_BackupBeforeLinking ==
    (hist.name = "batch" /\ args.command \in {"install", "restow"}) =>
        /\ Cardinality(BackupDirsMade) <= 1
        /\ (RealCalls # {} \/ sys # hist.pre[7] \/ hist.log # <<>>) =>
              (ConflictsBefore # {} => BackupDirsMade = {ConflictsBefore})
        /\ ConflictsBefore = {} => BackupDirsMade = {}
        /\ BackupDirsMade # {} => hist.confirmed

C29_Witness ==
    /\ pc = "done" /\ args.command = "install" /\ hist.confirmed
    /\ Cardinality(ConflictsBefore) = 2
    /\ BackupDirsMade = {ConflictsBefore}
    /\ RealCalls # {}
    /\ Len(ValidNames) = 2


\* The name a token stands for: the part before the first ":" for install,
\* uninstall and restow, the whole token for adopt.
NameGiven(tok) ==
    IF args.command # "adopt" /\ Len(tok) >= 2 /\ tok[2] = ":" THEN <<tok[1]>> ELSE tok

\* The names the command was given (all_packages with --all) whose
\* directory existed where the configuration as loaded puts it.
GivenValid ==
    {n \in Names :
        /\ IF args.all /\ args.command # "adopt"
           THEN Contains(hist.pre[1].all_packages, n)
           ELSE \E i \in 1..Len(args.packages) : NameGiven(args.packages[i]) = <<n>>
        /\ IF Contains(hist.pre[1].sudo_packages, n)
           THEN hist.pre[4][n] # NoDir
           ELSE hist.pre[3][n] # NoDir}

\* C30: install, uninstall, restow and adopt simulate, call the linker or
\* the privileged handler only for the names given whose directory exists
\* (under sudo_packages/ for a name of sudo_packages); a run that goes
\* through the loop has taken every such name, invalid ones beside them or
\* not; and when there is none the command returns at once, with no
\* simulation, no prompt, no call and the disk as it was.
C30_OnlyValidPackages ==
    hist.name = "batch" =>
        /\ \A c \in calls : c.tool \in {"stow", "sudo"} => c.package \in GivenValid
        /\ \A i \in 1..Len(hist.log) : hist.log[i].package \in GivenValid
        /\ (pc = "done" /\ results = <<"completed">>) =>
              {hist.log[i].package : i \in 1..Len(hist.log)} = GivenValid
        /\ (results = <<"no_valid">>) <=> (GivenValid = {})
        /\ GivenValid = {} =>
              /\ calls = {} /\ ~hist.prompted /\ hist.log = <<>>
              /\ disk = hist.pre
              /\ pc = "done"

C30_Witness ==
    /\ pc = "done" /\ results = <<"completed">> /\ args.command = "install"
    /\ Len(args.packages) = 2 /\ ~args.all
    /\ args.packages[1] = <<"p">> /\ args.packages[2] = <<"r">>
    /\ GivenValid = {"r"}
    /\ Contains(hist.pre[1].sudo_packages, "p") /\ hist.pre[3]["p"] # NoDir
    /\ StowCall("-R", FALSE, "r") \in calls


\* ------------------------------ _determine_structure_from_path, taken alone
\* The --from paths tried: absolute, written from ~, or relative, of up to
\* MaxPath parts; and the directory the command is run in.
PathParts == {"home", "u", ".config", "..", "d"}

ProbePaths ==
    {<<>>} \cup {<<first>> \o rest : first \in {"/", "~"}, rest \in SeqsUpTo(PathParts, MaxPath - 1)}
           \cup (SeqsUpTo(PathParts, MaxPath - 1) \ {<<>>})

WorkingDirs == {Home, <<"/", "etc">>}

StructureStep ==
    /\ ~probe.done
    /\ probe' = [probe EXCEPT !.done = TRUE,
                              !.out = IF probe.arg.is_sudo THEN "sudo"
                                      ELSE StructureOfPath(probe.arg.path)]
    /\ UNCHANGED <<disk, os_imported, tools, prompt, pc, budget, cfg, args, idx,
                   md, backup_path, hist, results, calls, prev, error>>

InitStructure ==
    /\ \E s \in {sh \in NewShapes : sh.ord = NoDir /\ sh.sudo = NoDir /\ ~sh.in_all
                                     /\ ~sh.in_sudo /\ sh.tf = "absent"} :
           InitRepo(s, "alone")
    /\ os_imported = FALSE
    /\ tools = AllTools
    /\ budget = 0
    /\ pc = "start" /\ cfg = NoFile /\ args = NoArgs /\ idx = 1 /\ md = NoMd
    /\ backup_path = FALSE /\ hist = NoHist /\ results = <<>> /\ calls = {}
    /\ prev = NoPrev /\ error = "none"
    /\ prompt = NoPrompt
    /\ probe \in [arg : [path : ProbePaths, cwd : WorkingDirs, is_sudo : BOOLEAN],
                  done : {FALSE}, out : {"none"}]

SpecStructure == InitStructure /\ [][StructureStep]_vars

\* Where a path leads: anchored at the working directory when relative,
\* with every ".." taken back one directory (the root is its own parent).
RECURSIVE Resolve(_, _)
Resolve(sofar, rest) ==
    IF rest = <<>> THEN sofar
    ELSE IF Head(rest) = ".."
    THEN Resolve(IF Len(sofar) > 1 THEN SubSeq(sofar, 1, Len(sofar) - 1) ELSE sofar,
                 Tail(rest))
    ELSE Resolve(Append(sofar, Head(rest)), Tail(rest))

Location(path, cwd) ==
    IF Head(path) = "/" THEN Resolve(<<"/">>, Tail(path))
    ELSE IF Head(path) = "~" THEN Resolve(Home, Tail(path))
    ELSE Resolve(cwd, path)

\* The structure type the statement gives a path.
StatedStructure(path, cwd, is_sudo) ==
    IF is_sudo THEN "sudo"
    ELSE IF path = <<>> THEN "xdg"
    ELSE LET at == Location(path, cwd) IN
         IF ~(Len(at) >= Len(Home) /\ SubSeq(at, 1, Len(Home)) = Home) THEN "sudo"
         ELSE IF Len(at) > Len(Home) /\ at[Len(Home) + 1] = ".config" THEN "xdg"
         ELSE "simple"

\* C31: new takes the XDG structure without a path or for a path under
\* ~/.config, the simple one for any other path under the home directory,
\* the privileged one for a path outside it, and the privileged one
\* whenever --sudo is given.
C31_StructureType ==
    probe.done =>
        probe.out = StatedStructure(probe.arg.path, probe.arg.cwd, probe.arg.is_sudo)

\* The same for the paths written from ~ or from / without a "..".
C31_PlainPaths ==
    (/\ probe.done
     /\ ~Contains(probe.arg.path, "..")
     /\ probe.arg.path # <<>> => Head(probe.arg.path) \in {"/", "~"}) =>
        probe.out = StatedStructure(probe.arg.path, probe.arg.cwd, probe.arg.is_sudo)

C31_PlainXdg ==
    /\ probe.done /\ ~probe.arg.is_sudo
    /\ probe.arg.path = <<"~", ".config", "d">> /\ probe.out = "xdg"

\* A new that created its package has put the name into sudo_packages
\* exactly when it worked with the privileged structure.
C31_SudoListedIffPrivileged ==
    (pc = "done" /\ args.command = "new" /\ results \in {<<"created">>, <<"adopted">>}
        /\ ~Contains(hist.pre[1].sudo_packages, args.package_name)) =>
        (Contains(config_json.sudo_packages, args.package_name)
            <=> (args.is_sudo \/ args.from_path = "outside"))


\* ------------------------------------- _update_config_file, taken alone
\* The JSON file as its sections, each there or not; the package lists
\* without repetition, package_targets giving a name its directory or
\* "none", special_files and default_target kept as they are written.
DupFree(seq) == \A i, j \in 1..Len(seq) : seq[i] = seq[j] => i = j

ListSections ==
    [present : {TRUE}, value : {l \in SeqsUpTo({"p", "q"}, MaxList) : DupFree(l)}]
        \cup [present : {FALSE}, value : {<<>>}]

NoTargets == [n \in Names |-> "none"]

TargetSections ==
    [present : {TRUE},
     value : {t \in [Names -> {"none", "t1", "t2"}] : t["r"] = "none"}]
        \cup [present : {FALSE}, value : {NoTargets}]

JsonFiles ==
    [all_packages : ListSections, sudo_packages : ListSections,
     package_targets : TargetSections,
     special_files : [present : BOOLEAN, value : {"special"}],
     default_target : [present : {TRUE}, value : {"~", "/x"}]]

\* --target as new receives it: None, an empty string, a directory.
CustomTargets == {"none", "", "t1"}

\* config_data.get(key, []) and config_data.setdefault(key, []).append(x)
\* on a list section.
ListOf(section) == IF section.present THEN section.value ELSE <<>>

AppendTo(section, x) == [present |-> TRUE, value |-> Append(ListOf(section), x)]

UpdateConfigDataAlwaysAppends(data, package_name, is_sudo, custom_target) ==
    [data EXCEPT
        !.all_packages = AppendTo(@, package_name),
        !.sudo_packages = IF is_sudo THEN AppendTo(@, package_name) ELSE @,
        !.package_targets =
            IF custom_target \in {"none", ""} THEN @
            ELSE [present |-> TRUE, value |-> [@.value EXCEPT ![package_name] = custom_target]]]

\* Lines 269-281 on the loaded JSON: the three additions, each under its
\* test (`if custom_target:` is false for None and for the empty string).
UpdateConfigData(data, package_name, is_sudo, custom_target) ==
    [data EXCEPT
        !.all_packages = IF Contains(ListOf(@), package_name) THEN @
                         ELSE AppendTo(@, package_name),
        !.sudo_packages = IF is_sudo /\ ~Contains(ListOf(@), package_name)
                          THEN AppendTo(@, package_name) ELSE @,
        !.package_targets =
            IF custom_target \in {"none", ""} THEN @
            ELSE [present |-> TRUE, value |-> [@.value EXCEPT ![package_name] = custom_target]]]

\* load_config_file and create_config on such a file: the sections, an
\* absent one with the default of its .get (lines 1740-1751).
CreateConfigFrom(file) ==
    [all_packages |-> ListOf(file.all_packages),
     sudo_packages |-> ListOf(file.sudo_packages),
     package_targets |-> IF file.package_targets.present
                         THEN file.package_targets.value ELSE NoTargets,
     special_files |-> IF file.special_files.present
                       THEN file.special_files.value ELSE "empty",
     default_target |-> file.default_target.value]

\* _update_config_file with every file operation succeeding: json.load,
\* the additions, json.dump of the same dict.
UpdateStep ==
    /\ ~probe.done
    /\ probe' = [probe EXCEPT !.done = TRUE,
                              !.out = UpdateConfigData(probe.arg.file, probe.arg.name,
                                                       probe.arg.is_sudo,
                                                       probe.arg.custom_target)]
    /\ UNCHANGED <<disk, os_imported, tools, prompt, pc, budget, cfg, args, idx,
                   md, backup_path, hist, results, calls, prev, error>>

InitUpdate ==
    /\ \E s \in {sh \in NewShapes : sh.ord = NoDir /\ sh.sudo = NoDir /\ ~sh.in_all
                                     /\ ~sh.in_sudo /\ sh.tf = "absent"} :
           InitRepo(s, "alone")
    /\ os_imported = FALSE
    /\ tools = AllTools
    /\ budget = 0
    /\ pc = "start" /\ cfg = NoFile /\ args = NoArgs /\ idx = 1 /\ md = NoMd
    /\ backup_path = FALSE /\ hist = NoHist /\ results = <<>> /\ calls = {}
    /\ prev = NoPrev /\ error = "none"
    /\ prompt = NoPrompt
    /\ \E a \in [file : JsonFiles, name : {"p", "r"}, is_sudo : BOOLEAN,
                 custom_target : CustomTargets] :
          probe = [arg |-> a, done |-> FALSE, out |-> a.file]

SpecUpdate == InitUpdate /\ [][UpdateStep]_vars

ConfigBefore == CreateConfigFrom(probe.arg.file)

ConfigReloaded == CreateConfigFrom(probe.out)

\* C32: after the update the reloaded configuration has the name at the
\* end of all_packages unless it was there (then the list is the same), at
\* the end of sudo_packages only for a privileged package and only if not
\* there, a package_targets entry for the name changed only when a target
\* was given (and then it is that target), and every other entry as before.
C32_UpdateAddsOnce ==
    probe.done =>
        LET n == probe.arg.name
            b == ConfigBefore
            a == ConfigReloaded
        IN /\ a.all_packages = IF Contains(b.all_packages, n) THEN b.all_packages
                                ELSE Append(b.all_packages, n)
           /\ a.sudo_packages = IF probe.arg.is_sudo /\ ~Contains(b.sudo_packages, n)
                                 THEN Append(b.sudo_packages, n) ELSE b.sudo_packages
           /\ \A m \in Names \ {n} : a.package_targets[m] = b.package_targets[m]
           /\ a.package_targets[n] # b.package_targets[n] => probe.arg.custom_target # "none"
           /\ probe.arg.custom_target \notin {"none", ""} =>
                 a.package_targets[n] = probe.arg.custom_target
           /\ a.special_files = b.special_files
           /\ a.default_target = b.default_target

C32_Witness ==
    /\ probe.done /\ probe.arg.name = "p" /\ probe.arg.is_sudo
    /\ probe.arg.custom_target = "t1"
    /\ ConfigBefore.all_packages = <<"p", "q">>
    /\ ~probe.arg.file.sudo_packages.present
    /\ ConfigReloaded.all_packages = <<"p", "q">>
    /\ ConfigReloaded.sudo_packages = <<"p">>
    /\ ConfigBefore.package_targets["p"] = "t2"
    /\ ConfigReloaded.package_targets["p"] = "t1"


\* ------------------------ the privileged handler on install, taken alone
\* The entries of special_files[pkg].files: src and dst, either of which
\* may be empty (or missing: .get gives None, which `not` treats alike);
\* the destination d1 asks for sudo, d2 does not.
FileConfigs == [src : {"", "f", "g"}, dst : {"", "d1", "d2"}]

RequiresSudo(file_config) == file_config.dst = "d1"

HandlerInputs ==
    [files : SeqsUpTo(FileConfigs, MaxList) \ {<<>>},
     srcs : SUBSET {"f", "g"}, dsts : SUBSET {"d1", "d2"}]

\* How the copies of one entry can go: the backup copy, then the copy
\* itself, which for sudo is cp followed by chown.
BackupResults == {"made", "failed"}
CopyResults(file_config) ==
    IF RequiresSudo(file_config) THEN {"ok", "cp_fails", "chown_fails"}
    ELSE {"ok", "cp_fails"}

\* One pass of the loop of _handle_sudo_package (lines 971-998) with
\* _install_special_file (lines 1000-1046): what it reports, what it leaves
\* at the destinations and which <dst>.backup files it has made.
InstallSpecialEntry(file_config, st, srcs, bak, cp) ==
    IF file_config.src = "" \/ file_config.dst = ""
    THEN [st EXCEPT !.log = Append(@, [outcome |-> "invalid", backup |-> "none", copied |-> FALSE])]
    ELSE IF file_config.src \notin srcs
    THEN [st EXCEPT !.log = Append(@, [outcome |-> "no_source", backup |-> "none", copied |-> FALSE])]
    ELSE LET existed == file_config.dst \in st.dsts IN
         [st EXCEPT
            !.baks = IF existed /\ bak = "made" THEN @ \cup {file_config.dst} ELSE @,
            !.dsts = IF cp \in {"ok", "chown_fails"} THEN @ \cup {file_config.dst} ELSE @,
            !.log = Append(@, [outcome |-> IF cp = "ok" THEN "installed" ELSE "error",
                               backup |-> IF existed THEN bak ELSE "none",
                               copied |-> cp \in {"ok", "chown_fails"}])]

NextEntryStopsOnError(i, entry, n) ==
    IF entry.outcome = "installed" THEN i + 1 ELSE n + 1

\* `continue`, and the return of _install_special_file after a caught
\* error: the loop takes the next entry.
NextEntry(i, entry, n) == i + 1

HandlerStep ==
    /\ ~probe.done
    /\ LET files == probe.arg.files
           st == probe.out
       IN \E bak \in BackupResults, cp \in CopyResults(files[st.i]) :
            LET after == InstallSpecialEntry(files[st.i], st, probe.arg.srcs, bak, cp)
                next == NextEntry(st.i, after.log[Len(after.log)], Len(files))
            IN probe' = [probe EXCEPT !.out = [after EXCEPT !.i = next],
                                      !.done = next > Len(files)]
    /\ UNCHANGED <<disk, os_imported, tools, prompt, pc, budget, cfg, args, idx,
                   md, backup_path, hist, results, calls, prev, error>>

InitHandler ==
    /\ \E s \in {sh \in NewShapes : sh.ord = NoDir /\ sh.sudo = NoDir /\ ~sh.in_all
                                     /\ ~sh.in_sudo /\ sh.tf = "absent"} :
           InitRepo(s, "alone")
    /\ os_imported = FALSE
    /\ tools = AllTools
    /\ budget = 0
    /\ pc = "start" /\ cfg = NoFile /\ args = NoArgs /\ idx = 1 /\ md = NoMd
    /\ backup_path = FALSE /\ hist = NoHist /\ results = <<>> /\ calls = {}
    /\ prev = NoPrev /\ error = "none"
    /\ prompt = NoPrompt
    /\ \E a \in HandlerInputs :
          probe = [arg |-> a, done |-> FALSE,
                   out |-> [i |-> 1, log |-> <<>>, dsts |-> a.dsts, baks |-> {}]]

SpecHandler == InitHandler /\ [][HandlerStep]_vars

\* Whether the destination of entry j was there when the entry was taken:
\* from the start, or left by a copy for an earlier entry.
ExistedWhenTaken(j) ==
    LET files == probe.arg.files IN
    \/ files[j].dst \in probe.arg.dsts
    \/ \E k \in 1..(j - 1) : files[k].dst = files[j].dst /\ probe.out.log[k].copied

\* C33: the privileged handler takes every mapping of the package in turn,
\* whatever became of the ones before: a mapping with an empty src or dst
\* and one whose source file is missing are reported and skipped, a failed
\* copy is reported; on install a destination that is there is copied to
\* <dst>.backup first, and the copy is made whether that backup succeeded.
C33_HandlerSkipsAndGoesOn ==
    LET files == probe.arg.files
        log == probe.out.log
    IN /\ Len(log) = probe.out.i - 1
       /\ probe.done <=> Len(log) = Len(files)
       /\ \A j \in 1..Len(log) :
             /\ log[j].outcome = "invalid" <=> (files[j].src = "" \/ files[j].dst = "")
             /\ log[j].outcome = "no_source" <=>
                   (files[j].src # "" /\ files[j].dst # "" /\ files[j].src \notin probe.arg.srcs)
             /\ log[j].outcome \in {"invalid", "no_source"} => log[j].backup = "none"
             /\ log[j].outcome \in {"installed", "error"} =>
                   (log[j].backup # "none" <=> ExistedWhenTaken(j))
             /\ log[j].outcome = "installed" => log[j].copied
             /\ log[j].copied =>
                   log[j].outcome \in {"installed", "error"} /\ files[j].dst \in probe.out.dsts
             /\ log[j].backup = "made" => files[j].dst \in probe.out.baks
       /\ \A d \in probe.out.baks :
             \E j \in 1..Len(log) : files[j].dst = d /\ log[j].backup = "made"
       /\ \A d \in probe.out.dsts \ probe.arg.dsts :
             \E j \in 1..Len(log) : files[j].dst = d /\ log[j].copied

C33_Witness ==
    /\ probe.done /\ Len(probe.arg.files) = 2
    /\ probe.out.log[1].outcome = "error" /\ probe.out.log[1].backup = "failed"
    /\ probe.out.log[2].outcome = "installed" /\ probe.out.log[2].backup = "failed"
    /\ probe.arg.files[1].dst = "d1" /\ probe.arg.files[2].dst = "d2"


C34_OneDirectory ==
    (InDelete /\ results # <<>> /\ LastResult = "success" /\ ~args.keep_files
        /\ pc \in {"done", "delete_begin"} /\ Len(results) = idx - 1
        /\ (hist.pre[3][hist.name] = NoDir \/ hist.pre[4][hist.name] = NoDir)) =>
        /\ ord_dir[hist.name] = NoDir
        /\ sudo_dir[hist.name] = NoDir

C34_OneDirectoryRemoved ==
    /\ InDelete /\ pc = "done" /\ LastResult = "success" /\ ~args.keep_files
    /\ hist.pre[3][hist.name] # NoDir /\ hist.pre[4][hist.name] = NoDir
    /\ ord_dir[hist.name] = NoDir


C35_NoNameConfirmation ==
    (InDelete /\ args.force) => ~hist.prompted

C35_ForcedSuccess ==
    /\ InDelete /\ args.force /\ pc = "done" /\ LastResult = "success"
    /\ hist.pre[3][hist.name] # NoDir /\ hist.inputs = 1 /\ ~hist.prompted


\* The mapping m of p is among what some token of the command selects: the
\* bare name selects every mapping, p:file those whose src is file.
SelectedByAToken(m) ==
    \E tok \in TokensFor("p") :
        \/ tok = <<"p">>
        \/ Len(tok) = 3 /\ tok[2] = ":" /\ tok[3] = MapSrc(m)

\* The privileged handler took the mapping m up: on install an elevated
\* copy was run for it, on uninstall its existing destination was asked
\* about.
HandledIfDue(m) ==
    IF args.command = "uninstall"
    THEN m \in hist.pre[7] => m \in AskedMaps
    ELSE MapSudo(m) => SudoCall("cp", m, "p") \in calls

SeveralTokensRun ==
    /\ hist.name = "batch" /\ args.command \in {"install", "uninstall", "restow"}
    /\ ~args.all /\ pc = "done" /\ results = <<"completed">>
    /\ Contains(cfg.sudo_packages, "p") /\ sudo_dir["p"] # NoDir
    /\ cfg.special_files["p"] # NoEntry
    /\ <<"p", ":">> \notin TokensFor("p")

\* C36: when several tokens of one install or uninstall name the same
\* privileged package, every mapping selected by any of them is handled.
C36_TokensAddUp ==
    SeveralTokensRun =>
        \A m \in Maps :
            (Contains(cfg.special_files["p"], m) /\ MapSrc(m) \in sudo_dir["p"]
                /\ SelectedByAToken(m)) => HandledIfDue(m)

\* The same when one token names the package.
C36_OneToken ==
    (SeveralTokensRun /\ Cardinality(TokensFor("p")) = 1) =>
        \A m \in Maps :
            (Contains(cfg.special_files["p"], m) /\ MapSrc(m) \in sudo_dir["p"]
                /\ SelectedByAToken(m)) => HandledIfDue(m)

C36_OneTokenHandled ==
    /\ SeveralTokensRun /\ TokensFor("p") = {<<"p">>} /\ args.command = "uninstall"
    /\ hist.pre[7] = {"m1", "m2"} /\ AskedMaps = {"m1", "m2"}


\* C37: a confirmed install (or restow) hands the valid packages of the
\* batch to the linker, or to the privileged handler for a package of
\* sudo_packages, one after the other in list order, each once; when the
\* loop is left every one of them has been handed over, those whose
\* simulated run in the preview failed among them.
C37_EveryPackageOnce ==
    (hist.name = "batch" /\ args.command \in {"install", "restow"} /\ hist.confirmed) =>
        /\ Len(hist.log) <= Len(ValidNames)
        /\ Attempted = SubSeq(ValidNames, 1, Len(hist.log))
        /\ \A i, j \in 1..Len(hist.log) : hist.log[i].package = hist.log[j].package => i = j
        /\ \A i \in 1..Len(hist.log) :
              hist.log[i].handler =
                  IF Contains(hist.pre[1].sudo_packages, hist.log[i].package)
                  THEN "sudo" ELSE "stow"
        /\ \A c \in RealCalls :
              c.tool = "stow" => \E i \in 1..Len(hist.log) : hist.log[i].package = c.package
        /\ pc = "done" => Attempted = ValidNames

C37_Witness ==
    /\ hist.name = "batch" /\ args.command = "install" /\ hist.confirmed /\ pc = "done"
    /\ Len(hist.log) = 2
    /\ hist.sim_failed = {hist.log[1].package}
    /\ hist.log[1].ok /\ hist.log[2].handler = "sudo"


\* The linker invocations of adopt made for a package.
AdoptCallsFor(package) == {c \in RealCalls : c.mode = "--adopt" /\ c.package = package}

\* C38: adopt given valid packages none of which has a conflicting file
\* ends with no confirmation asked, no linker invocation and no git step,
\* and it ends so in that case only; with a conflict and the operator's
\* yes, stow --adopt is invoked for each valid package by the time the loop
\* is left, those without a conflict of their own included.
C38_AdoptOnlyWithConflicts ==
    (hist.name = "batch" /\ args.command = "adopt" /\ ValidNames # <<>>) =>
        /\ ConflictsBefore = {} =>
              /\ ~hist.prompted /\ RealCalls = {} /\ hist.git = <<>> /\ hist.log = <<>>
              /\ disk = hist.pre
              /\ pc = "done" /\ results = <<"no_conflicts">>
        /\ results = <<"no_conflicts">> => ConflictsBefore = {}
        /\ (ConflictsBefore # {} /\ hist.confirmed /\ pc \in {"adopt_git", "done"}) =>
              \A i \in 1..Len(ValidNames) : AdoptCallsFor(ValidNames[i]) # {}
        /\ (ConflictsBefore # {} /\ pc = "done" /\ hist.prompted /\ ~hist.confirmed) =>
              RealCalls = {}

C38_Witness ==
    /\ hist.name = "batch" /\ args.command = "adopt" /\ hist.confirmed /\ pc = "done"
    /\ Len(ValidNames) = 2
    /\ \E i \in 1..2 :
          /\ \A e \in ConflictsBefore : e.name # ValidNames[i]
          /\ AdoptCallsFor(ValidNames[i]) # {}
          /\ hist.log[i].ok
    /\ ConflictsBefore # {}


StatusClasses == {"linked", "wrong target", "file exists, not symlink", "not installed"}

\* The lines status printed for a file.
LinesOf(f) == {i \in 1..Len(results) : results[i].file = f}

\* C39: for the files of a regular package, status prints one line per
\* file and none for anything else, the mark of a line is one of the four
\* classes and follows from what lies at the target path (the package's own
\* symlink, another symlink, something that is no symlink, nothing), and a
\* file is marked 'file exists, not symlink' exactly when check_conflicts
\* reports it.
C39_StatusAgreesWithConflicts ==
    (probe.done /\ pc = "done") =>
        /\ \A f \in Files : Cardinality(LinesOf(f)) = IF f \in probe.arg.files THEN 1 ELSE 0
        /\ \A i \in 1..Len(results) :
              LET k == probe.arg.target[results[i].file]
                  m == results[i].mark
              IN /\ m \in StatusClasses
                 /\ m = "file exists, not symlink" <=> results[i].file \in probe.out
                 /\ m = "linked" <=> k = "link"
                 /\ m = "wrong target" <=> k \in {"elsewhere", "dangling"}
                 /\ m = "file exists, not symlink" <=> k \in {"file", "dir"}
                 /\ m = "not installed" <=> k = "absent"
        /\ \A f \in probe.out : LinesOf(f) # {}

C39_Witness ==
    /\ probe.done /\ pc = "done"
    /\ probe.arg.files = Files
    /\ probe.arg.target["f"] = "dir" /\ probe.arg.target[".gitkeep"] = "elsewhere"
    /\ probe.out = {"f"}
    /\ \E i, j \in 1..Len(results) :
          /\ results[i] = [file |-> "f", mark |-> "file exists, not symlink"]
          /\ results[j] = [file |-> ".gitkeep", mark |-> "wrong target"]

====
